---------------------------- MODULE Spec2Model ----------------------------
(* Sparse vector / sparse matrix engine of the autodiff package.           *)
(*                                                                          *)
(* Scalars live in a heap (a sequence of cells, a reference is a position  *)
(* in it; NilRef is Go's nil pointer), so that sharing of a scalar between *)
(* two containers (Slice, Append, a matrix view) and deep copies (Clone)   *)
(* are distinguishable.  A scalar cell carries its value and one           *)
(* derivative component (order 1, one free variable).                      *)
EXTENDS Integers, Sequences, FiniteSets, TLC

VARIABLES heap, vecs, mats, hist, steps, run

vars == <<heap, vecs, mats, hist, steps, run>>

(* ------------------------------------------------------------------------ *)
(* bounds                                                                   *)
(* ------------------------------------------------------------------------ *)

\* largest vector dimension drawn by Init
MaxDim == 3

\* number of operations applied after construction
MaxSteps == 2

\* longest index / value list handed to NEW_VECTOR
MaxLen == 2

\* largest number of threads of a thread pool
MaxThreads == 2

\* math.Inf(-1)
MinusInf == -99

\* a wrapped distribution that keeps no scratch state
StatelessPdf == 0

\* float64 values drawn for constructor arguments and writes
Values == {-1, 0, 1}

\* derivative components drawn for writes
Derivs == {0, 1}

(* ------------------------------------------------------------------------ *)
(* helpers on sequences and finite maps                                     *)
(* ------------------------------------------------------------------------ *)

Range(s) == {s[k] : k \in 1..Len(s)}

\* map f extended (or overwritten) at key k
Put(f, k, x) == [j \in (DOMAIN f) \cup {k} |-> IF j = k THEN x ELSE f[j]]

\* map f without key k
Del(f, k) == [j \in (DOMAIN f) \ {k} |-> f[j]]

EmptyMap == [j \in {} |-> 0]

RECURSIVE InsertSorted(_, _)
InsertSorted(s, x) ==
  IF s = <<>> THEN <<x>>
  ELSE IF x <= Head(s) THEN <<x>> \o s
  ELSE <<Head(s)>> \o InsertSorted(Tail(s), x)

\* sort.Ints
RECURSIVE SortInts(_)
SortInts(s) == IF s = <<>> THEN <<>> ELSE InsertSorted(SortInts(Tail(s)), Head(s))

RECURSIVE RemoveFirst(_, _)
RemoveFirst(s, x) ==
  IF s = <<>> THEN <<>>
  ELSE IF Head(s) = x THEN Tail(s)
  ELSE <<Head(s)>> \o RemoveFirst(Tail(s), x)

RECURSIVE DropBelow(_, _)
DropBelow(s, lo) ==
  IF s = <<>> THEN <<>>
  ELSE IF Head(s) >= lo THEN s
  ELSE DropBelow(Tail(s), lo)

\* number of positions of s holding x
Count(s, x) == Cardinality({k \in 1..Len(s) : s[k] = x})

(* ------------------------------------------------------------------------ *)
(* scalars                                                                  *)
(* ------------------------------------------------------------------------ *)

NilRef == 0

NEW_SCALAR(x) == [val |-> x, der |-> 0]

NULL_SCALAR == [val |-> 0, der |-> 0]

\* scalar.Set(other): copies value and derivative
ScalarSet(h, r, s) == [h EXCEPT ![r] = s]

\* scalar.SetValue(x): sets the value, drops the derivative
ScalarSetValue(h, r, x) == [h EXCEPT ![r] = [val |-> x, der |-> 0]]

\* scalar.Reset()
ScalarReset(h, r) == [h EXCEPT ![r] = NULL_SCALAR]

\* structural zero test of the iterator
nullScalar(s) ==
  IF s.val # 0 THEN FALSE
  ELSE IF s.der # 0 THEN FALSE
  ELSE TRUE

(* ------------------------------------------------------------------------ *)
(* sparse index structure                                                   *)
(* ------------------------------------------------------------------------ *)

vectorSparseIndex == [values |-> <<>>, isSorted |-> FALSE]

indexInsert(ix, i) == [values |-> Append(ix.values, i), isSorted |-> FALSE]

indexDelete(ix, i) == [ix EXCEPT !.values = RemoveFirst(@, i)]

indexSort(ix) ==
  IF ix.isSorted THEN ix ELSE [values |-> SortInts(ix.values), isSorted |-> TRUE]

indexClone(ix) == [values |-> ix.values, isSorted |-> ix.isSorted]

\* the ascending sequence an index iterator still has to yield
indexIterator(ix) == indexSort(ix).values

indexIteratorFrom(ix, i) == DropBelow(indexSort(ix).values, i)

(* ------------------------------------------------------------------------ *)
(* sparse vector: construction and element access                           *)
(* ------------------------------------------------------------------------ *)

\* ascending sequence of the elements of a finite set of integers
RECURSIVE SetToSeq(_)
SetToSeq(S) ==
  IF S = {} THEN <<>>
  ELSE LET m == CHOOSE x \in S : \A y \in S : x <= y
       IN  <<m>> \o SetToSeq(S \ {m})

\* the sequence <<lo, ..., hi-1>>
UpTo(lo, hi) == [k \in 1..(IF hi > lo THEN hi - lo ELSE 0) |-> lo + k - 1]

NIL_VECTOR(length) ==
  [n |-> length, values |-> EmptyMap, index |-> vectorSparseIndex, dense |-> FALSE]

NULL_VECTOR(length) == NIL_VECTOR(length)

RECURSIVE NewVectorLoop(_, _, _, _, _)
NewVectorLoop(h, r, indices, values, i) ==
  IF i > Len(indices) THEN [panic |-> FALSE, h |-> h, vec |-> r]
  ELSE LET k == indices[i] IN
       IF k >= r.n THEN [panic |-> TRUE, h |-> h, vec |-> r]
       ELSE IF k \in DOMAIN r.values THEN [panic |-> TRUE, h |-> h, vec |-> r]
       ELSE IF values[i] # 0
            THEN NewVectorLoop(Append(h, NEW_SCALAR(values[i])),
                               [r EXCEPT !.values = Put(@, k, Len(h) + 1),
                                         !.index  = indexInsert(@, k)],
                               indices, values, i + 1)
            ELSE NewVectorLoop(h, r, indices, values, i + 1)

\* NEW_VECTOR storing each value under its position in the list instead of
\* under its index
RECURSIVE NewVectorLoop_byPosition(_, _, _, _, _)
NewVectorLoop_byPosition(h, r, indices, values, i) ==
  IF i > Len(indices) THEN [panic |-> FALSE, h |-> h, vec |-> r]
  ELSE LET k == indices[i] IN
       IF k >= r.n THEN [panic |-> TRUE, h |-> h, vec |-> r]
       ELSE IF (i - 1) \in DOMAIN r.values THEN [panic |-> TRUE, h |-> h, vec |-> r]
       ELSE IF values[i] # 0
            THEN NewVectorLoop_byPosition(Append(h, NEW_SCALAR(values[i])),
                               [r EXCEPT !.values = Put(@, i - 1, Len(h) + 1),
                                         !.index  = indexInsert(@, i - 1)],
                               indices, values, i + 1)
            ELSE NewVectorLoop_byPosition(h, r, indices, values, i + 1)

NEW_VECTOR_byPosition(h, indices, values, n) ==
  IF Len(indices) # Len(values)
  THEN [panic |-> TRUE, h |-> h, vec |-> NIL_VECTOR(n)]
  ELSE NewVectorLoop_byPosition(h, NIL_VECTOR(n), indices, values, 1)

NEW_VECTOR(h, indices, values, n) ==
  IF Len(indices) # Len(values)
  THEN [panic |-> TRUE, h |-> h, vec |-> NIL_VECTOR(n)]
  ELSE NewVectorLoop(h, NIL_VECTOR(n), indices, values, 1)

\* dense vector of the given values: every position holds a scalar
RECURSIVE NewDenseLoop(_, _, _, _)
NewDenseLoop(h, r, values, i) ==
  IF i > Len(values) THEN [panic |-> FALSE, h |-> h, vec |-> r]
  ELSE NewDenseLoop(Append(h, NEW_SCALAR(values[i])),
                    [r EXCEPT !.values = Put(@, i - 1, Len(h) + 1)], values, i + 1)

NEW_DENSE_VECTOR(h, values) ==
  NewDenseLoop(h, [n |-> Len(values), values |-> EmptyMap,
                   index |-> vectorSparseIndex, dense |-> TRUE], values, 1)

Dim(vec) == vec.n

\* values[i] of the Go map: the stored pointer, nil for a missing key
GET(vec, i) == IF i \in DOMAIN vec.values THEN vec.values[i] ELSE NilRef

\* ValueAt / ConstAt panic: index out of bounds, or a stored nil pointer
ReadPanics(vec, i) ==
  \/ i < 0
  \/ i >= Dim(vec)
  \/ (i \in DOMAIN vec.values /\ vec.values[i] = NilRef)

ValueAt(h, vec, i) ==
  IF i \in DOMAIN vec.values /\ vec.values[i] # NilRef
  THEN h[vec.values[i]].val
  ELSE 0

\* ConstAt: the stored scalar, or the constant zero
ConstAt(h, vec, i) ==
  IF i \in DOMAIN vec.values /\ vec.values[i] # NilRef
  THEN h[vec.values[i]]
  ELSE NULL_SCALAR

AT(h, vec, i) ==
  IF i < 0 \/ i >= Dim(vec)
  THEN [panic |-> TRUE, h |-> h, vec |-> vec, ref |-> NilRef]
  ELSE IF i \in DOMAIN vec.values
  THEN [panic |-> FALSE, h |-> h, vec |-> vec, ref |-> vec.values[i]]
  ELSE [panic |-> FALSE,
        h     |-> Append(h, NULL_SCALAR),
        vec   |-> [vec EXCEPT !.values = Put(@, i, Len(h) + 1),
                              !.index  = indexInsert(@, i)],
        ref   |-> Len(h) + 1]

\* At / AT of the channel-based variant: no bounds check
AT_chan(h, vec, i) ==
  IF i \in DOMAIN vec.values
  THEN [panic |-> FALSE, h |-> h, vec |-> vec, ref |-> vec.values[i]]
  ELSE [panic |-> FALSE,
        h     |-> Append(h, NULL_SCALAR),
        vec   |-> [vec EXCEPT !.values = Put(@, i, Len(h) + 1),
                              !.index  = indexInsert(@, i)],
        ref   |-> Len(h) + 1]

\* v.At(i).Set(s): write through the mutable accessor
AtSet(h, vec, i, s) ==
  LET a == AT(h, vec, i) IN
  IF a.panic \/ a.ref = NilRef THEN [panic |-> TRUE, h |-> a.h, vec |-> a.vec]
  ELSE [panic |-> FALSE, h |-> ScalarSet(a.h, a.ref, s), vec |-> a.vec]

(* ------------------------------------------------------------------------ *)
(* sparse vector: iterator                                                  *)
(* ------------------------------------------------------------------------ *)

\* ITERATOR(): sorts the index; the iterator is the ascending sequence of
\* indices it still has to visit (a dense vector yields 0 .. n-1)
ITERATOR(vec) ==
  IF vec.dense
  THEN [vec |-> vec, rest |-> UpTo(0, vec.n)]
  ELSE [vec |-> [vec EXCEPT !.index = indexSort(@)], rest |-> indexIterator(vec.index)]

\* the pruning loop of VECTOR_ITERATOR.Next
RECURSIVE ItSkip(_, _, _)
ItSkip(h, vec, rest) ==
  IF rest = <<>> THEN [panic |-> FALSE, vec |-> vec, rest |-> rest]
  ELSE LET i == Head(rest) IN
       IF GET(vec, i) = NilRef THEN [panic |-> TRUE, vec |-> vec, rest |-> rest]
       ELSE IF nullScalar(h[GET(vec, i)])
       THEN ItSkip(h, [vec EXCEPT !.values = Del(@, i), !.index = indexDelete(@, i)],
                   Tail(rest))
       ELSE [panic |-> FALSE, vec |-> vec, rest |-> rest]

\* VECTOR_ITERATOR.Next (sparse: advance, then prune; dense: advance)
ItNext(h, vec, rest) ==
  IF vec.dense THEN [panic |-> FALSE, vec |-> vec, rest |-> Tail(rest)]
  ELSE ItSkip(h, vec, Tail(rest))

\* for it := v.ITERATOR(); it.Ok(); it.Next() { }  (seen: the visited indices)
RECURSIVE IterLoop(_, _, _, _)
IterLoop(h, vec, rest, seen) ==
  IF rest = <<>> THEN [panic |-> FALSE, vec |-> vec, seen |-> seen]
  ELSE LET nx == ItNext(h, vec, rest) IN
       IF nx.panic
       THEN [panic |-> TRUE, vec |-> nx.vec, seen |-> Append(seen, Head(rest))]
       ELSE IterLoop(h, nx.vec, nx.rest, Append(seen, Head(rest)))

Iterate(h, vec) ==
  LET it == ITERATOR(vec) IN IterLoop(h, it.vec, it.rest, <<>>)

(* ------------------------------------------------------------------------ *)
(* sparse vector: structural operations                                     *)
(* ------------------------------------------------------------------------ *)

RECURSIVE CloneLoop(_, _, _, _)
CloneLoop(h, obj, r, keys) ==
  IF keys = <<>> THEN [panic |-> FALSE, h |-> h, vec |-> r]
  ELSE LET k == Head(keys) IN
       IF obj.values[k] = NilRef THEN [panic |-> TRUE, h |-> h, vec |-> r]
       ELSE CloneLoop(Append(h, h[obj.values[k]]), obj,
                      [r EXCEPT !.values = Put(@, k, Len(h) + 1)], Tail(keys))

\* a copy that shares the stored scalars with the receiver
Clone_shallow(h, obj) ==
  [panic |-> FALSE, h |-> h,
   vec |-> [NIL_VECTOR(obj.n) EXCEPT !.dense = obj.dense, !.values = obj.values,
                                     !.index = indexClone(obj.index)]]

\* Clone: a fresh scalar per stored entry, and a copy of the index
Clone(h, obj) ==
  LET c == CloneLoop(h, obj, [NIL_VECTOR(obj.n) EXCEPT !.dense = obj.dense],
                     SetToSeq(DOMAIN obj.values))
  IN  [c EXCEPT !.vec.index = indexClone(obj.index)]

RECURSIVE ResetLoop(_, _, _)
ResetLoop(h, obj, keys) ==
  IF keys = <<>> THEN [panic |-> FALSE, h |-> h, vec |-> obj]
  ELSE IF obj.values[Head(keys)] = NilRef THEN [panic |-> TRUE, h |-> h, vec |-> obj]
  ELSE ResetLoop(ScalarReset(h, obj.values[Head(keys)]), obj, Tail(keys))

Reset(h, obj) == ResetLoop(h, obj, SetToSeq(DOMAIN obj.values))

RECURSIVE ReverseLoop(_, _, _)
ReverseLoop(obj, r, keys) ==
  IF keys = <<>> THEN r
  ELSE LET i == Head(keys)
           j == obj.n - i - 1
       IN  ReverseLoop(obj, [r EXCEPT !.values = Put(@, j, obj.values[i]),
                                      !.index  = indexInsert(@, j)], Tail(keys))

ReverseOrder(obj) == ReverseLoop(obj, NIL_VECTOR(obj.n), SetToSeq(DOMAIN obj.values))

RECURSIVE SliceLoop(_, _, _, _, _)
SliceLoop(obj, r, rest, i, j) ==
  IF rest = <<>> THEN r
  ELSE IF Head(rest) >= j THEN r
  ELSE LET k == Head(rest) IN
       SliceLoop(obj, [r EXCEPT !.values = Put(@, k - i, GET(obj, k)),
                                !.index  = indexInsert(@, k - i)], Tail(rest), i, j)

\* Slice(i, j): a new vector holding the same scalars (obj: the receiver,
\* its index sorted by the index iterator)
Slice(obj, i, j) ==
  IF obj.dense
  THEN [obj |-> obj,
        vec |-> [n |-> j - i, dense |-> TRUE, index |-> vectorSparseIndex,
                 values |-> [k \in 0..(j - i - 1) |-> obj.values[k + i]]]]
  ELSE [obj |-> [obj EXCEPT !.index = indexSort(@)],
        vec |-> SliceLoop(obj, NIL_VECTOR(j - i), indexIteratorFrom(obj.index, i), i, j)]

RECURSIVE AppendLoop(_, _, _, _, _)
AppendLoop(h, n, r, w, rest) ==
  IF rest = <<>> THEN [panic |-> FALSE, vec |-> r, w |-> w]
  ELSE LET i  == n + Head(rest)
           r2 == [r EXCEPT !.values = Put(@, i, GET(w, Head(rest))),
                           !.index  = indexInsert(@, i)]
           nx == ItNext(h, w, rest)
       IN  IF nx.panic THEN [panic |-> TRUE, vec |-> r2, w |-> nx.vec]
           ELSE AppendLoop(h, n, r2, nx.vec, nx.rest)

\* Append(w): a clone of obj extended by the scalars of w (w is iterated)
Append_(h, obj, w) ==
  LET c  == Clone(h, obj)
      it == ITERATOR(w)
      a  == AppendLoop(c.h, obj.n, [c.vec EXCEPT !.n = obj.n + Dim(w)], it.vec, it.rest)
  IN  IF c.panic THEN [panic |-> TRUE, h |-> c.h, vec |-> c.vec, w |-> w]
      ELSE [panic |-> a.panic, h |-> c.h, vec |-> a.vec, w |-> a.w]

\* obj.values[i], obj.values[j] = obj.values[j], obj.values[i]
Swap(obj, i, j) ==
  LET vi == GET(obj, i)
      vj == GET(obj, j)
  IN  [obj EXCEPT !.values = Put(Put(@, i, vj), j, vi)]

RECURSIVE PermuteLoop(_, _, _)
PermuteLoop(obj, pi, i) ==
  IF i >= obj.n THEN [err |-> FALSE, vec |-> obj]
  ELSE LET p == pi[i + 1] IN
       IF p < 0 \/ p >= obj.n THEN [err |-> TRUE, vec |-> obj]
       ELSE IF i # p /\ p > i
       THEN LET ok1 == i \in DOMAIN obj.values
                ok2 == p \in DOMAIN obj.values
                vals == IF ok1 /\ ok2
                        THEN Put(Put(obj.values, p, obj.values[i]), i, obj.values[p])
                        ELSE IF ok1 THEN Del(Put(obj.values, p, obj.values[i]), i)
                        ELSE IF ok2 THEN Del(Put(obj.values, i, obj.values[p]), p)
                        ELSE obj.values
            IN  PermuteLoop([obj EXCEPT !.values = vals], pi, i + 1)
       ELSE PermuteLoop(obj, pi, i + 1)

RECURSIVE InsertAll(_, _)
InsertAll(ix, s) ==
  IF s = <<>> THEN ix ELSE InsertAll(indexInsert(ix, Head(s)), Tail(s))

Permute(obj, pi) ==
  IF Len(pi) # obj.n THEN [err |-> TRUE, vec |-> obj]
  ELSE LET r == PermuteLoop(obj, pi, 0) IN
       IF r.err THEN r
       ELSE [err |-> FALSE, vec |-> [r.vec EXCEPT !.index = InsertAll(vectorSparseIndex, pi)]]

\* sort.Sort on the collected scalars, by value (Less: strictly smaller)
RECURSIVE InsertByValue(_, _, _, _)
InsertByValue(h, s, r, reverse) ==
  IF s = <<>> THEN <<r>>
  ELSE IF (IF reverse THEN h[Head(s)].val < h[r].val ELSE h[r].val < h[Head(s)].val)
  THEN <<r>> \o s
  ELSE <<Head(s)>> \o InsertByValue(h, Tail(s), r, reverse)

RECURSIVE SortByValue(_, _, _)
SortByValue(h, s, reverse) ==
  IF s = <<>> THEN <<>>
  ELSE InsertByValue(h, SortByValue(h, Tail(s), reverse), Head(s), reverse)

RECURSIVE SortPlace(_, _, _, _, _, _)
SortPlace(h, r, sorted, i, ip, in) ==
  IF i >= Len(sorted) THEN r
  ELSE LET k == IF h[sorted[i + 1]].val > 0 THEN i + ip ELSE i + in IN
       SortPlace(h, [r EXCEPT !.values = Put(@, k, sorted[i + 1]),
                              !.index  = indexInsert(@, k)], sorted, i + 1, ip, in)

\* a Sort that places the positive values without the offset ip
Sort_noOffset(h, obj, reverse) ==
  LET it   == Iterate(h, obj)
      refs == [k \in 1..Len(it.seen) |-> GET(it.vec, it.seen[k])]
      cnt  == Cardinality(DOMAIN it.vec.values)
      ip   == 0
      in   == IF reverse THEN obj.n - cnt ELSE 0
  IN  IF it.panic THEN [panic |-> TRUE, vec |-> it.vec]
      ELSE IF NilRef \in Range(refs) THEN [panic |-> TRUE, vec |-> NIL_VECTOR(obj.n)]
      ELSE [panic |-> FALSE,
            vec   |-> SortPlace(h, NIL_VECTOR(obj.n), SortByValue(h, refs, reverse),
                                0, ip, in)]

Sort(h, obj, reverse) ==
  LET it   == Iterate(h, obj)
      refs == [k \in 1..Len(it.seen) |-> GET(it.vec, it.seen[k])]
      cnt  == Cardinality(DOMAIN it.vec.values)
      ip   == IF reverse THEN 0 ELSE obj.n - cnt
      in   == IF reverse THEN obj.n - cnt ELSE 0
  IN  IF it.panic THEN [panic |-> TRUE, vec |-> it.vec]
      ELSE IF NilRef \in Range(refs) THEN [panic |-> TRUE, vec |-> NIL_VECTOR(obj.n)]
      ELSE [panic |-> FALSE,
            vec   |-> SortPlace(h, NIL_VECTOR(obj.n), SortByValue(h, refs, reverse),
                                0, ip, in)]

(* ------------------------------------------------------------------------ *)
(* joint iterator and Set                                                   *)
(* ------------------------------------------------------------------------ *)

\* VECTOR_JOINT_ITERATOR.Next with the comparison of the two indices turned
\* around
JointNext_less(h, a, b, r1, r2, idx) ==
  LET ok1    == r1 # <<>>
      ok2    == r2 # <<>>
      idx1   == IF ok1 THEN Head(r1) ELSE idx
      s1a    == IF ok1 THEN GET(a, Head(r1)) ELSE NilRef
      first2 == ok2 /\ (idx1 < Head(r2) \/ ~ok1)
      eq2    == ok2 /\ ~first2 /\ idx1 = Head(r2)
      s1     == IF first2 THEN NilRef ELSE s1a
      s2     == IF first2 \/ eq2 THEN GET(b, Head(r2)) ELSE NilRef
      n1     == IF s1 # NilRef THEN ItNext(h, a, r1)
                ELSE [panic |-> FALSE, vec |-> a, rest |-> r1]
      n2     == IF s2 # NilRef THEN ItNext(h, b, r2)
                ELSE [panic |-> FALSE, vec |-> b, rest |-> r2]
  IN  [panic |-> n1.panic \/ n2.panic,
       a |-> n1.vec, b |-> n2.vec, r1 |-> n1.rest, r2 |-> n2.rest,
       idx |-> IF first2 THEN Head(r2) ELSE idx1, s1 |-> s1, s2 |-> s2]

\* VECTOR_JOINT_ITERATOR.Next; r1, r2 are the two iterators, s1 and s2 the
\* scalars handed out (NilRef for s2 stands for the constant zero)
JointNext(h, a, b, r1, r2, idx) ==
  LET ok1    == r1 # <<>>
      ok2    == r2 # <<>>
      idx1   == IF ok1 THEN Head(r1) ELSE idx
      s1a    == IF ok1 THEN GET(a, Head(r1)) ELSE NilRef
      first2 == ok2 /\ (idx1 > Head(r2) \/ ~ok1)
      eq2    == ok2 /\ ~first2 /\ idx1 = Head(r2)
      s1     == IF first2 THEN NilRef ELSE s1a
      s2     == IF first2 \/ eq2 THEN GET(b, Head(r2)) ELSE NilRef
      n1     == IF s1 # NilRef THEN ItNext(h, a, r1)
                ELSE [panic |-> FALSE, vec |-> a, rest |-> r1]
      n2     == IF s2 # NilRef THEN ItNext(h, b, r2)
                ELSE [panic |-> FALSE, vec |-> b, rest |-> r2]
  IN  [panic |-> n1.panic \/ n2.panic,
       a |-> n1.vec, b |-> n2.vec, r1 |-> n1.rest, r2 |-> n2.rest,
       idx |-> IF first2 THEN Head(r2) ELSE idx1, s1 |-> s1, s2 |-> s2]

\* VECTOR_JOINT_ITERATOR.Ok
JointOk(h, s1, s2) ==
  \/ ~(s1 = NilRef \/ h[s1].val = 0)
  \/ ~(s2 = NilRef \/ h[s2].val = 0)

\* JOINT_ITERATOR(b): both iterators at their first index, then one Next
JOINT_ITERATOR(h, obj, b) ==
  LET i1 == ITERATOR(obj)
      i2 == ITERATOR(b)
  IN  JointNext(h, i1.vec, i2.vec, i1.rest, i2.rest, -1)

\* value of the second scalar handed to the loop body
ConstOf(h, s2) == IF s2 = NilRef THEN NULL_SCALAR ELSE h[s2]

\* body of the loop in Set
SetBody(h, a, st) ==
  IF st.s1 # NilRef
  THEN [panic |-> FALSE, h |-> ScalarSet(h, st.s1, ConstOf(h, st.s2)), vec |-> a]
  ELSE AtSet(h, a, st.idx, ConstOf(h, st.s2))

\* for it := obj.JOINT_ITERATOR(b); it.Ok(); it.Next() { body }
\* mode "set" runs the body of Set, mode "read" an empty body;
\* out collects what the iterator surfaced
RECURSIVE JointLoop(_, _, _, _)
JointLoop(h, st, mode, out) ==
  IF st.panic THEN [panic |-> TRUE, h |-> h, a |-> st.a, b |-> st.b, out |-> out]
  ELSE IF ~JointOk(h, st.s1, st.s2)
  THEN [panic |-> FALSE, h |-> h, a |-> st.a, b |-> st.b, out |-> out]
  ELSE LET e  == [idx |-> st.idx, s1 |-> st.s1, s2 |-> st.s2,
                  v1 |-> IF st.s1 = NilRef THEN 0 ELSE h[st.s1].val,
                  v2 |-> ConstOf(h, st.s2).val]
           bd == IF mode = "set" THEN SetBody(h, st.a, st)
                 ELSE [panic |-> FALSE, h |-> h, vec |-> st.a]
       IN  IF bd.panic
           THEN [panic |-> TRUE, h |-> bd.h, a |-> bd.vec, b |-> st.b,
                 out |-> Append(out, e)]
           ELSE JointLoop(bd.h, JointNext(bd.h, bd.vec, st.b, st.r1, st.r2, st.idx),
                          mode, Append(out, e))

\* obj.Set(x), obj and x distinct objects
Set(h, obj, x) ==
  IF Dim(obj) # Dim(x)
  THEN [panic |-> TRUE, h |-> h, a |-> obj, b |-> x, out |-> <<>>]
  ELSE JointLoop(h, JOINT_ITERATOR(h, obj, x), "set", <<>>)

\* the loop with an empty body
JointRead(h, obj, x) == JointLoop(h, JOINT_ITERATOR(h, obj, x), "read", <<>>)

(* ------------------------------------------------------------------------ *)
(* state                                                                    *)
(* ------------------------------------------------------------------------ *)

\* vecs: the vector objects of the program, by name
\*   "v"  the sparse vector under test      "x"  the operand of Set / joint
\*   "c"  the result of Clone, Slice, Append, Row, Col
\*   "m"  the backing vector of the matrix M
\*   "mc" the backing vector of a clone of M
VecNames == {"v", "x", "c", "m", "mc"}

\* mats: the matrix headers, by name ("M" the matrix, "V" a view of it)
MatNames == {"M", "V"}

NoVec == [n |-> -1, values |-> EmptyMap, index |-> vectorSparseIndex, dense |-> FALSE]

NoMat == [values |-> "", rows |-> -1, cols |-> -1, rowOffset |-> 0, rowMax |-> 0,
          colOffset |-> 0, colMax |-> 0, transposed |-> FALSE,
          tmp1 |-> NoVec, tmp2 |-> NoVec]

NoVecs == [t \in VecNames |-> NoVec]

NoMats == [t \in MatNames |-> NoMat]

\* run: the goroutines in flight; for EvaluateLogPdf see InitPool; otherwise
\* the goroutines of a Set of the channel-based variant and what they
\* hold: main (the loop of Set), j (the producer of JOINT_RANGE), p1 and p2
\* (the producers of RANGE and ConstRange); closed: the channel of JOINT_RANGE
\* is closed; crash: the runtime has stopped the program
NoItem == [Index |-> 0, Value |-> NilRef]

NoEntry == [Index |-> 0, Value1 |-> NilRef, Value2 |-> NilRef]

NoProducer == [pc |-> "idle", rest |-> <<>>, cur |-> NoItem]

NoRun ==
  [main |-> "idle", entry |-> NoEntry, j |-> "idle",
   r1 |-> NoItem, ok1 |-> FALSE, r2 |-> NoItem, ok2 |-> FALSE, r |-> NoEntry,
   p1 |-> NoProducer, p2 |-> NoProducer, closed |-> FALSE, crash |-> FALSE]

\* hist: the last operation (op), its receiver (t), its vector operand (u),
\* its other arguments and its outcome
NoHist ==
  [op |-> "init", t |-> "", u |-> "", i |-> 0, j |-> 0, s |-> NULL_SCALAR, pi |-> <<>>,
   panic |-> FALSE, err |-> FALSE, out |-> <<>>]

Exists(t) == vecs[t] # NoVec

\* scalars written through At: values without derivative, and a zero value
\* with a nonzero derivative
Scalars == {[val |-> a, der |-> 0] : a \in Values} \cup {[val |-> 0, der |-> d] : d \in Derivs}

\* stored keys of a vector, and the set of indices in its index
Keys(vec) == DOMAIN vec.values

IndexSet(vec) == Range(vec.index.values)

\* number of stored entries
Occupancy(vec) == Cardinality(Keys(vec))

\* one operation was applied: record it
Commit(rec, h2, vs2, ms2) ==
  /\ steps < MaxSteps
  /\ ~hist.panic
  /\ heap'  = h2
  /\ vecs'  = vs2
  /\ mats'  = ms2
  /\ hist'  = [NoHist EXCEPT !.op = rec.op, !.t = rec.t, !.u = rec.u, !.i = rec.i, !.j = rec.j,
                             !.s = rec.s, !.pi = rec.pi, !.panic = rec.panic,
                             !.err = rec.err, !.out = rec.out]
  /\ steps' = steps + 1
  /\ run'   = run

Rec(op, t) ==
  [op |-> op, t |-> t, u |-> "", i |-> 0, j |-> 0, s |-> NULL_SCALAR, pi |-> <<>>,
   panic |-> FALSE, err |-> FALSE, out |-> <<>>]

(* ------------------------------------------------------------------------ *)
(* initial states                                                           *)
(* ------------------------------------------------------------------------ *)

\* scalars a freshly built vector stores: values without derivative
StoredScalars == {[val |-> a, der |-> 0] : a \in Values}

RECURSIVE BuildLoop(_, _, _, _)
BuildLoop(h, vec, keys, f) ==
  IF keys = <<>> THEN [panic |-> FALSE, h |-> h, vec |-> vec]
  ELSE LET r == AtSet(h, vec, Head(keys), f[Head(keys)])
       IN  BuildLoop(r.h, r.vec, Tail(keys), f)

\* NULL_VECTOR(n) followed by At(i).Set(f[i]) for the indices i of S
Build(h, n, S, f) == BuildLoop(h, NULL_VECTOR(n), SetToSeq(S), f)

\* the contents a vector of dimension n is built with
Contents(n, cells) == (SUBSET (0..(n - 1))) \X [0..(n - 1) -> cells]

\* v built by the constructor and At writes
InitV ==
  \E n \in 1..MaxDim :
    \E cv \in Contents(n, StoredScalars) :
      LET rv == Build(<<>>, n, cv[1], cv[2])
      IN  /\ heap = rv.h
          /\ vecs = [NoVecs EXCEPT !["v"] = rv.vec]
          /\ mats = NoMats
          /\ hist = NoHist
          /\ steps = 0
          /\ run = NoRun

\* the operand x: a sparse vector built the same way, or a dense vector
Operand(h, n, dense, cx) ==
  IF dense THEN NEW_DENSE_VECTOR(h, [k \in 1..n |-> cx[2][k - 1].val])
  ELSE Build(h, n, cx[1], cx[2])

OperandScalars == {[val |-> a, der |-> 0] : a \in {0, 1}}

\* v and an operand x of the same dimension
InitVX ==
  \E n \in 1..MaxDim, dense \in BOOLEAN :
    \E cv \in Contents(n, StoredScalars), cx \in Contents(n, OperandScalars) :
      LET rv == Build(<<>>, n, cv[1], cv[2])
          rx == Operand(rv.h, n, dense, cx)
      IN  /\ heap = rx.h
          /\ vecs = [NoVecs EXCEPT !["v"] = rv.vec, !["x"] = rx.vec]
          /\ mats = NoMats
          /\ hist = NoHist
          /\ steps = 0
          /\ run = NoRun

(* ------------------------------------------------------------------------ *)
(* operations on the sparse vectors                                         *)
(* ------------------------------------------------------------------------ *)

\* t.At(i).Set(s), i possibly out of range
DoAt(t, i, s) ==
  /\ Exists(t)
  /\ LET r == AtSet(heap, vecs[t], i, s) IN
     Commit([Rec("At", t) EXCEPT !.i = i, !.s = s, !.panic = r.panic],
            r.h, [vecs EXCEPT ![t] = r.vec], mats)

\* t.Reset()
DoReset(t) ==
  /\ Exists(t)
  /\ LET r == Reset(heap, vecs[t]) IN
     Commit([Rec("Reset", t) EXCEPT !.panic = r.panic],
            r.h, [vecs EXCEPT ![t] = r.vec], mats)

\* for it := t.Iterator(); it.Ok(); it.Next() { }
DoIterate(t) ==
  /\ Exists(t)
  /\ LET r == Iterate(heap, vecs[t]) IN
     Commit([Rec("Iterate", t) EXCEPT !.panic = r.panic, !.out = r.seen],
            heap, [vecs EXCEPT ![t] = r.vec], mats)

\* t.Set(u)
DoSet(t, u) ==
  /\ Exists(t) /\ Exists(u) /\ t # u
  /\ LET r == Set(heap, vecs[t], vecs[u]) IN
     Commit([Rec("Set", t) EXCEPT !.u = u, !.panic = r.panic, !.out = r.out],
            r.h, [vecs EXCEPT ![t] = r.a, ![u] = r.b], mats)

\* for it := t.JointIterator(u); it.Ok(); it.Next() { }
DoJoint(t, u) ==
  /\ Exists(t) /\ Exists(u) /\ t # u
  /\ Dim(vecs[t]) = Dim(vecs[u])
  /\ LET r == JointRead(heap, vecs[t], vecs[u]) IN
     Commit([Rec("Joint", t) EXCEPT !.u = u, !.panic = r.panic, !.out = r.out],
            r.h, [vecs EXCEPT ![t] = r.a, ![u] = r.b], mats)

\* c := v.Clone()
DoClone ==
  /\ Exists("v")
  /\ LET r == Clone(heap, vecs["v"]) IN
     Commit([Rec("Clone", "v") EXCEPT !.panic = r.panic],
            r.h, [vecs EXCEPT !["c"] = r.vec], mats)

\* c := v.Slice(i, j)
DoSlice(i, j) ==
  /\ Exists("v")
  /\ 0 <= i /\ i <= j /\ j <= Dim(vecs["v"])
  /\ LET r == Slice(vecs["v"], i, j) IN
     Commit([Rec("Slice", "v") EXCEPT !.i = i, !.j = j],
            heap, [vecs EXCEPT !["v"] = r.obj, !["c"] = r.vec], mats)

\* c := v.Append(x)
DoAppend ==
  /\ Exists("v") /\ Exists("x")
  /\ LET r == Append_(heap, vecs["v"], vecs["x"]) IN
     Commit([Rec("Append", "v") EXCEPT !.panic = r.panic],
            r.h, [vecs EXCEPT !["c"] = r.vec, !["x"] = r.w], mats)

\* v.ReverseOrder()
DoReverseOrder ==
  /\ Exists("v")
  /\ Commit(Rec("ReverseOrder", "v"), heap,
            [vecs EXCEPT !["v"] = ReverseOrder(vecs["v"])], mats)

\* v.Swap(i, j)
DoSwap(i, j) ==
  /\ Exists("v")
  /\ Commit([Rec("Swap", "v") EXCEPT !.i = i, !.j = j], heap,
            [vecs EXCEPT !["v"] = Swap(vecs["v"], i, j)], mats)

\* v.Permute(pi)
DoPermute(pi) ==
  /\ Exists("v")
  /\ LET r == Permute(vecs["v"], pi) IN
     Commit([Rec("Permute", "v") EXCEPT !.pi = pi, !.err = r.err], heap,
            [vecs EXCEPT !["v"] = r.vec], mats)

\* v.Sort(reverse)
DoSort(reverse) ==
  /\ Exists("v")
  /\ LET r == Sort(heap, vecs["v"], reverse) IN
     Commit([Rec("Sort", "v") EXCEPT !.i = IF reverse THEN 1 ELSE 0, !.panic = r.panic],
            heap, [vecs EXCEPT !["v"] = r.vec], mats)

\* permutations of 0 .. n-1 as sequences, and sequences that are none
Perms(n) == {p \in [1..n -> 0..(n-1)] : \A a, b \in 1..n : a # b => p[a] # p[b]}

\* the arguments of a constructor call that has not run yet
InitNew ==
  \E n \in 1..MaxDim, len \in 0..MaxLen :
    \E indices \in [1..len -> -1..n], values \in [1..len -> Values] :
      /\ heap = <<>>
      /\ vecs = NoVecs
      /\ mats = NoMats
      /\ hist = [NoHist EXCEPT !.op = "args", !.i = n, !.pi = indices, !.out = values]
      /\ steps = 0
      /\ run = NoRun

\* v := NEW_VECTOR(indices, values, n); a panic leaves no vector
DoNew ==
  /\ hist.op = "args"
  /\ LET r == NEW_VECTOR(heap, hist.pi, hist.out, hist.i) IN
     Commit([Rec("NEW_VECTOR", "v") EXCEPT !.i = hist.i, !.pi = hist.pi,
                                           !.out = hist.out, !.panic = r.panic],
            IF r.panic THEN heap ELSE r.h,
            IF r.panic THEN vecs ELSE [vecs EXCEPT !["v"] = r.vec], mats)

SpecNew == InitNew /\ [][DoNew]_vars

\* the sparse vector v under its public operations
Next ==
  \/ \E s \in Scalars : \E i \in -1..Dim(vecs["v"]) : DoAt("v", i, s)
  \/ DoReset("v")
  \/ DoIterate("v")
  \/ DoClone
  \/ \E i, j \in 0..MaxDim : DoSlice(i, j)
  \/ DoReverseOrder
  \/ \E i, j \in 0..(MaxDim - 1) : DoSwap(i, j)
  \/ \E pi \in Perms(Dim(vecs["v"])) : DoPermute(pi)
  \/ \E reverse \in BOOLEAN : DoSort(reverse)

Spec == InitV /\ [][Next]_vars

\* a vector built by the constructor and At writes, sorted
NextSort ==
  \/ \E s \in Scalars : \E i \in 0..(Dim(vecs["v"]) - 1) : DoAt("v", i, s)
  \/ \E reverse \in BOOLEAN : DoSort(reverse)

SpecSort == InitV /\ [][NextSort]_vars

\* v and an operand x: joint iteration and Set
NextJoint ==
  \/ DoJoint("v", "x")
  \/ DoSet("v", "x")
  \/ \E t \in {"v", "x"} : DoIterate(t)
  \/ DoReset("v")
  \/ DoAppend

SpecJoint == InitVX /\ [][NextJoint]_vars

(* ------------------------------------------------------------------------ *)
(* sparse matrix: a header over a backing vector                            *)
(* ------------------------------------------------------------------------ *)

\* initTmp: the scratch vectors are allocated, or cropped by a vector Slice
\* (which sorts the index of the scratch vector it crops)
initTmp(matrix) ==
  LET fresh1 == matrix.tmp1 = NoVec \/ Dim(matrix.tmp1) < matrix.rows
      fresh2 == matrix.tmp2 = NoVec \/ Dim(matrix.tmp2) < matrix.cols
  IN  [matrix EXCEPT
         !.tmp1 = IF fresh1 THEN NULL_VECTOR(matrix.rows)
                  ELSE Slice(@, 0, matrix.rows).vec,
         !.tmp2 = IF fresh2 THEN NULL_VECTOR(matrix.cols)
                  ELSE Slice(@, 0, matrix.cols).vec]

\* NULL_MATRIX(rows, cols): the header, and its backing vector "values"
NULL_MATRIX(values, rows, cols) ==
  [mat |-> initTmp([NoMat EXCEPT !.values = values, !.rows = rows, !.cols = cols,
                                 !.rowOffset = 0, !.rowMax = rows,
                                 !.colOffset = 0, !.colMax = cols]),
   vec |-> NULL_VECTOR(rows * cols)]

\* NIL_MATRIX(rows, cols): no scratch vectors
NIL_MATRIX(values, rows, cols) ==
  [mat |-> [NoMat EXCEPT !.values = values, !.rows = rows, !.cols = cols,
                         !.rowOffset = 0, !.rowMax = rows,
                         !.colOffset = 0, !.colMax = cols],
   vec |-> NIL_VECTOR(rows * cols)]

\* index(i, j) panics outside the header's rows and columns
indexPanics(matrix, i, j) ==
  i < 0 \/ j < 0 \/ i >= matrix.rows \/ j >= matrix.cols

\* a position computed as for a header that is not transposed
index_ignoreFlag(matrix, i, j) ==
  (matrix.rowOffset + i) * matrix.colMax + (matrix.colOffset + j)

\* index(i, j): the position in the backing vector
index(matrix, i, j) ==
  IF matrix.transposed
  THEN (matrix.colOffset + j) * matrix.rowMax + (matrix.rowOffset + i)
  ELSE (matrix.rowOffset + i) * matrix.colMax + (matrix.colOffset + j)

\* ij(k): the row and column the position k of the backing vector is taken for
ij(matrix, k) ==
  IF matrix.transposed
  THEN <<(k % matrix.colMax) - matrix.colOffset, (k \div matrix.colMax) - matrix.rowOffset>>
  ELSE <<(k % matrix.rowMax) - matrix.rowOffset, (k \div matrix.rowMax) - matrix.colOffset>>

\* matrix.AT(i, j) = matrix.values.AT(index(i, j))
MatAT(h, vs, matrix, i, j) ==
  IF indexPanics(matrix, i, j)
  THEN [panic |-> TRUE, h |-> h, vec |-> vs[matrix.values], ref |-> NilRef]
  ELSE AT(h, vs[matrix.values], index(matrix, i, j))

\* matrix.ConstAt(i, j) = matrix.values.ConstAt(index(i, j))
MatReadPanics(vs, matrix, i, j) ==
  indexPanics(matrix, i, j) \/ ReadPanics(vs[matrix.values], index(matrix, i, j))

MatConstAt(h, vs, matrix, i, j) == ConstAt(h, vs[matrix.values], index(matrix, i, j))

\* matrix.At(i, j).Set(s)
MatAtSet(h, vs, matrix, i, j, s) ==
  LET a == MatAT(h, vs, matrix, i, j) IN
  IF a.panic \/ a.ref = NilRef
  THEN [panic |-> TRUE, h |-> a.h, vs |-> vs]
  ELSE [panic |-> FALSE, h |-> ScalarSet(a.h, a.ref, s),
        vs |-> [vs EXCEPT ![matrix.values] = a.vec]]

RECURSIVE NewMatrixLoop(_, _, _, _, _, _, _)
NewMatrixLoop(h, vs, m, rowIndices, colIndices, values, i) ==
  IF i > Len(colIndices) THEN [panic |-> FALSE, h |-> h, vs |-> vs]
  ELSE IF values[i] # 0
  THEN LET a == MatAT(h, vs, m, rowIndices[i], colIndices[i]) IN
       IF a.panic \/ a.ref = NilRef THEN [panic |-> TRUE, h |-> h, vs |-> vs]
       ELSE NewMatrixLoop(ScalarSetValue(a.h, a.ref, values[i]),
                          [vs EXCEPT ![m.values] = a.vec],
                          m, rowIndices, colIndices, values, i + 1)
  ELSE NewMatrixLoop(h, vs, m, rowIndices, colIndices, values, i + 1)

\* NEW_MATRIX(rows, cols, rowIndices, colIndices, values): the triplets
\* with a nonzero value are written through At
NEW_MATRIX(h, vs, name, rows, cols, rowIndices, colIndices, values) ==
  LET z == NULL_MATRIX(name, rows, cols) IN
  IF Len(rowIndices) # Len(colIndices) \/ Len(colIndices) # Len(values)
  THEN [panic |-> TRUE, h |-> h, vs |-> vs, mat |-> NoMat]
  ELSE LET r == NewMatrixLoop(h, [vs EXCEPT ![name] = z.vec], z.mat,
                              rowIndices, colIndices, values, 1)
       IN  [panic |-> r.panic, h |-> r.h, vs |-> r.vs, mat |-> z.mat]

\* the scratch vector a cropping leaves behind in the parent header: the
\* vector Slice sorts its index
Cropped(tmp, length) ==
  IF tmp = NoVec \/ Dim(tmp) < length THEN tmp ELSE Slice(tmp, 0, length).obj

\* Slice(rfrom, rto, cfrom, cto): a new header over the same backing vector
\* (parent: the receiver, whose scratch vectors were cropped)
MatSlice(matrix, rfrom, rto, cfrom, cto) ==
  LET m == [matrix EXCEPT !.rowOffset = @ + rfrom, !.rows = rto - rfrom,
                          !.colOffset = @ + cfrom, !.cols = cto - cfrom]
  IN  [parent |-> [matrix EXCEPT !.tmp1 = Cropped(@, m.rows),
                                 !.tmp2 = Cropped(@, m.cols)],
       mat    |-> initTmp(m)]

\* a transpose that swaps the metadata but keeps the transposed flag
T_keepFlag(matrix) ==
  [values     |-> matrix.values,
   rows       |-> matrix.cols,
   cols       |-> matrix.rows,
   transposed |-> matrix.transposed,
   rowOffset  |-> matrix.colOffset,
   rowMax     |-> matrix.colMax,
   colOffset  |-> matrix.rowOffset,
   colMax     |-> matrix.rowMax,
   tmp1       |-> matrix.tmp2,
   tmp2       |-> matrix.tmp1]

\* T(): a new header over the same backing vector, rows and columns swapped
T(matrix) ==
  [values     |-> matrix.values,
   rows       |-> matrix.cols,
   cols       |-> matrix.rows,
   transposed |-> ~matrix.transposed,
   rowOffset  |-> matrix.colOffset,
   rowMax     |-> matrix.colMax,
   colOffset  |-> matrix.rowOffset,
   colMax     |-> matrix.rowMax,
   tmp1       |-> matrix.tmp2,
   tmp2       |-> matrix.tmp1]

\* the copying branch of ROW / COL: v.At(k).Set(values.ConstAt(index(..)))
RECURSIVE CopyLine(_, _, _, _, _, _, _)
CopyLine(h, vs, matrix, v, fixed, isRow, k) ==
  IF k >= Dim(v) THEN [panic |-> FALSE, h |-> h, vs |-> vs, vec |-> v]
  ELSE LET i == IF isRow THEN fixed ELSE k
           j == IF isRow THEN k ELSE fixed
       IN  IF MatReadPanics(vs, matrix, i, j)
           THEN [panic |-> TRUE, h |-> h, vs |-> vs, vec |-> v]
           ELSE LET w == AtSet(h, v, k, MatConstAt(h, vs, matrix, i, j))
                IN  CopyLine(w.h, vs, matrix, w.vec, fixed, isRow, k + 1)

\* the slicing branch of ROW / COL: values.Slice(k, k + length)
SliceLine(h, vs, matrix, i, j, length) ==
  IF indexPanics(matrix, i, j)
  THEN [panic |-> TRUE, h |-> h, vs |-> vs, vec |-> NoVec]
  ELSE LET k == index(matrix, i, j)
           r == Slice(vs[matrix.values], k, k + length)
       IN  [panic |-> FALSE, h |-> h,
            vs |-> [vs EXCEPT ![matrix.values] = r.obj], vec |-> r.vec]

\* ROW(i): a copy of the row if the header is transposed, otherwise a slice
\* of the backing vector
ROW(h, vs, matrix, i) ==
  IF matrix.transposed
  THEN CopyLine(h, vs, matrix, NIL_VECTOR(matrix.cols), i, TRUE, 0)
  ELSE SliceLine(h, vs, matrix, i, 0, matrix.cols)

\* COL(j): a slice of the backing vector if the header is transposed,
\* otherwise a copy of the column
COL(h, vs, matrix, j) ==
  IF matrix.transposed
  THEN SliceLine(h, vs, matrix, 0, j, matrix.rows)
  ELSE CopyLine(h, vs, matrix, NIL_VECTOR(matrix.rows), j, FALSE, 0)

\* Clone: the backing vector and both scratch vectors are cloned; the clone's
\* backing vector is stored as "name"
MatClone(h, vs, matrix, name) ==
  IF matrix.tmp1 = NoVec \/ matrix.tmp2 = NoVec
  THEN [panic |-> TRUE, h |-> h, vs |-> vs, mat |-> NoMat]
  ELSE LET c0 == Clone(h, vs[matrix.values])
           c1 == Clone(c0.h, matrix.tmp1)
           c2 == Clone(c1.h, matrix.tmp2)
       IN  [panic |-> c0.panic \/ c1.panic \/ c2.panic,
            h     |-> c2.h,
            vs    |-> [vs EXCEPT ![name] = c0.vec],
            mat   |-> [matrix EXCEPT !.values = name, !.tmp1 = c1.vec, !.tmp2 = c2.vec]]

(* ------------------------------------------------------------------------ *)
(* operations on the sparse matrices                                        *)
(* ------------------------------------------------------------------------ *)

MatExists(X) == mats[X] # NoMat

\* shapes of the matrix M
Shapes == {<<1, 2>>, <<2, 1>>, <<2, 2>>, <<2, 3>>}

\* which positions of M hold an entry when it is built
Fillings == {"none", "all", "some"}

Filled(filling, i, j) ==
  CASE filling = "none" -> FALSE
    [] filling = "all"  -> TRUE
    [] OTHER            -> (i + j) % 2 = 0

\* the positions (i, j) of a rows x cols matrix, row by row
Positions(rows, cols) == [k \in 1..(rows * cols) |-> <<(k - 1) \div cols, (k - 1) % cols>>]

\* M := NEW_MATRIX(rows, cols, ...) with a distinct nonzero value at every
\* filled position, or the transpose M := NEW_MATRIX(...).T()
InitM ==
  \E shape \in Shapes, filling \in Fillings, transposed \in BOOLEAN :
    LET rows == shape[1]
        cols == shape[2]
        pos  == Positions(rows, cols)
        r    == NEW_MATRIX(<<>>, NoVecs, "m", rows, cols,
                           [k \in DOMAIN pos |-> pos[k][1]],
                           [k \in DOMAIN pos |-> pos[k][2]],
                           [k \in DOMAIN pos |->
                              IF Filled(filling, pos[k][1], pos[k][2]) THEN k ELSE 0])
    IN  /\ heap = r.h
        /\ vecs = r.vs
        /\ mats = [NoMats EXCEPT !["M"] = IF transposed THEN T(r.mat) ELSE r.mat]
        /\ hist = NoHist
        /\ steps = 0
        /\ run = NoRun

\* scalars written into a matrix: zero, and a value no built matrix holds
MatScalars == {[val |-> a, der |-> 0] : a \in {-1, 0}}

\* X.At(i, j).Set(s)
DoMatAt(X, i, j, s) ==
  /\ MatExists(X)
  /\ LET r == MatAtSet(heap, vecs, mats[X], i, j, s) IN
     Commit([Rec("MatAt", X) EXCEPT !.i = i, !.j = j, !.s = s, !.panic = r.panic],
            r.h, r.vs, mats)

\* V := M.Slice(rfrom, rto, cfrom, cto)
DoMatSlice(rfrom, rto, cfrom, cto) ==
  /\ MatExists("M")
  /\ 0 <= rfrom /\ rfrom < rto /\ rto <= mats["M"].rows
  /\ 0 <= cfrom /\ cfrom < cto /\ cto <= mats["M"].cols
  /\ LET r == MatSlice(mats["M"], rfrom, rto, cfrom, cto) IN
     Commit([Rec("MatSlice", "M") EXCEPT !.i = rfrom, !.j = cfrom,
                                         !.pi = <<rfrom, rto, cfrom, cto>>],
            heap, vecs, [mats EXCEPT !["M"] = r.parent, !["V"] = r.mat])

\* V := M.T()
DoT ==
  /\ MatExists("M")
  /\ Commit(Rec("T", "M"), heap, vecs, [mats EXCEPT !["V"] = T(mats["M"])])

\* c := M.Row(i)
DoRow(i) ==
  /\ MatExists("M")
  /\ LET r == ROW(heap, vecs, mats["M"], i) IN
     Commit([Rec("Row", "M") EXCEPT !.i = i, !.panic = r.panic],
            r.h, [r.vs EXCEPT !["c"] = r.vec], mats)

\* c := M.Col(j)
DoCol(j) ==
  /\ MatExists("M")
  /\ LET r == COL(heap, vecs, mats["M"], j) IN
     Commit([Rec("Col", "M") EXCEPT !.i = j, !.panic = r.panic],
            r.h, [r.vs EXCEPT !["c"] = r.vec], mats)

\* V := M.Clone()
DoMatClone ==
  /\ MatExists("M")
  /\ LET r == MatClone(heap, vecs, mats["M"], "mc") IN
     Commit([Rec("MatClone", "M") EXCEPT !.panic = r.panic],
            IF r.panic THEN heap ELSE r.h,
            IF r.panic THEN vecs ELSE r.vs,
            IF r.panic THEN mats ELSE [mats EXCEPT !["V"] = r.mat])

\* the matrix M, its views and clones, and its row and column vectors
NextMatrix ==
  \/ \E X \in MatNames, s \in MatScalars :
       \E i \in 0..(mats[X].rows - 1), j \in 0..(mats[X].cols - 1) : DoMatAt(X, i, j, s)
  \/ \E rfrom, rto \in 0..mats["M"].rows, cfrom, cto \in 0..mats["M"].cols :
       DoMatSlice(rfrom, rto, cfrom, cto)
  \/ DoT
  \/ \E i \in 0..(mats["M"].rows - 1) : DoRow(i)
  \/ \E j \in 0..(mats["M"].cols - 1) : DoCol(j)
  \/ \E s \in MatScalars : \E k \in 0..(Dim(vecs["c"]) - 1) : DoAt("c", k, s)
  \/ DoMatClone

SpecMatrix == InitM /\ [][NextMatrix]_vars

(* ------------------------------------------------------------------------ *)
(* clones                                                                   *)
(* ------------------------------------------------------------------------ *)

\* scalars stored in or written into a vector that is cloned
CloneScalars == {[val |-> a, der |-> 0] : a \in {0, 1}}

\* key sets of the operand x of a Set call
OperandKeys(n) == {{}, {n - 1}, 0..(n - 1)}

\* v built by the constructor and At writes, and an operand x
InitCV ==
  \E n \in 1..MaxDim :
    \E cv \in Contents(n, CloneScalars), kx \in OperandKeys(n) :
      LET rv == Build(<<>>, n, cv[1], cv[2])
          rx == Build(rv.h, n, kx, [k \in 0..(n - 1) |-> [val |-> 1, der |-> 0]])
      IN  /\ heap = rx.h
          /\ vecs = [NoVecs EXCEPT !["v"] = rv.vec, !["x"] = rx.vec]
          /\ mats = NoMats
          /\ hist = NoHist
          /\ steps = 0
          /\ run = NoRun

InitClone == InitCV \/ InitM

\* a vector and its clone, a matrix and its clone
NextClone ==
  \/ DoClone
  \/ \E t \in {"v", "c"}, s \in CloneScalars :
       /\ Exists("v")
       /\ \E i \in 0..(Dim(vecs[t]) - 1) : DoAt(t, i, s)
  \/ \E t \in {"v", "c"} : DoIterate(t)
  \/ \E t \in {"v", "c"} : DoReset(t)
  \/ \E t \in {"v", "c"}, u \in {"v", "c", "x"} : DoSet(t, u)
  \/ NextMatrix

SpecClone == InitClone /\ [][NextClone]_vars

(* ------------------------------------------------------------------------ *)
(* the channel-based variant of the sparse vector                           *)
(* ------------------------------------------------------------------------ *)

\* v.At(i).Set(s) of the channel-based variant
DoAtChan(t, i, s) ==
  /\ Exists(t)
  /\ LET a == AT_chan(heap, vecs[t], i) IN
     Commit([Rec("At", t) EXCEPT !.i = i, !.s = s, !.panic = a.ref = NilRef],
            IF a.ref = NilRef THEN a.h ELSE ScalarSet(a.h, a.ref, s),
            [vecs EXCEPT ![t] = a.vec], mats)

NextChan ==
  \/ \E s \in Scalars : \E i \in -1..Dim(vecs["v"]) : DoAtChan("v", i, s)
  \/ DoReset("v")

SpecChan == InitV /\ [][NextChan]_vars

(* ------------------------------------------------------------------------ *)
(* sparse matrix: transposition in place                                    *)
(* ------------------------------------------------------------------------ *)

\* the inner loop of Tip: follow the cycle of "cycle", swapping each position
\* of it with "cycle"; seen: the positions of this pass (a position met
\* twice before the cycle closes means the loop never ends)
RECURSIVE TipCycle(_, _, _, _, _, _, _)
TipCycle(vec, visited, seen, rows, mn, cycle, k) ==
  LET k2 == IF k # mn - 1 THEN (rows * k) % (mn - 1) ELSE k
      v2 == Swap(vec, k2, cycle)
  IN  IF k2 = cycle THEN [hang |-> FALSE, vec |-> v2, visited |-> visited \cup {k2}]
      ELSE IF k2 \in seen THEN [hang |-> TRUE, vec |-> v2, visited |-> visited]
      ELSE TipCycle(v2, visited \cup {k2}, seen \cup {k2}, rows, mn, cycle, k2)

\* the outer loop of Tip: one pass per cycle start that was not visited yet
RECURSIVE TipLoop(_, _, _, _, _)
TipLoop(vec, visited, rows, mn, cycle) ==
  IF cycle >= mn THEN [hang |-> FALSE, vec |-> vec]
  ELSE IF cycle \in visited THEN TipLoop(vec, visited, rows, mn, cycle + 1)
  ELSE LET r == TipCycle(vec, visited, {}, rows, mn, cycle, cycle) IN
       IF r.hang THEN [hang |-> TRUE, vec |-> r.vec]
       ELSE TipLoop(r.vec, r.visited, rows, mn, cycle + 1)

\* Tip(): permute the backing vector along the cycles of the transposition,
\* then swap the dimension metadata (the transposed flag stays)
Tip(vs, matrix) ==
  LET r == TipLoop(vs[matrix.values], {}, matrix.rows, Dim(vs[matrix.values]), 1)
  IN  [hang |-> r.hang,
       vs   |-> [vs EXCEPT ![matrix.values] = r.vec],
       mat  |-> [matrix EXCEPT !.rows = matrix.cols, !.cols = matrix.rows,
                               !.rowOffset = matrix.colOffset,
                               !.colOffset = matrix.rowOffset,
                               !.rowMax = matrix.colMax, !.colMax = matrix.rowMax,
                               !.tmp1 = matrix.tmp2, !.tmp2 = matrix.tmp1]]

\* M.Tip(); a call that does not return is recorded like a panic
DoTip ==
  /\ MatExists("M")
  /\ LET r == Tip(vecs, mats["M"]) IN
     Commit([Rec("Tip", "M") EXCEPT !.panic = r.hang],
            heap, r.vs, [mats EXCEPT !["M"] = r.mat])

\* the matrix M under element writes and transposition in place
NextTip ==
  \/ DoTip
  \/ \E s \in MatScalars :
       \E i \in 0..(mats["M"].rows - 1), j \in 0..(mats["M"].cols - 1) :
         DoMatAt("M", i, j, s)

SpecTip == InitM /\ [][NextTip]_vars


(* ------------------------------------------------------------------------ *)
(* sparse matrix: views of views                                            *)
(* ------------------------------------------------------------------------ *)

\* V := X.Slice(rfrom, rto, cfrom, cto), X the matrix M or the view V itself
DoViewSlice(X, rfrom, rto, cfrom, cto) ==
  /\ MatExists(X)
  /\ 0 <= rfrom /\ rfrom < rto /\ rto <= mats[X].rows
  /\ 0 <= cfrom /\ cfrom < cto /\ cto <= mats[X].cols
  /\ LET r == MatSlice(mats[X], rfrom, rto, cfrom, cto) IN
     Commit([Rec("ViewSlice", X) EXCEPT !.i = rfrom, !.j = cfrom,
                                        !.pi = <<rfrom, rto, cfrom, cto>>],
            heap, vecs, [[mats EXCEPT ![X] = r.parent] EXCEPT !["V"] = r.mat])

\* V := X.T(), X the matrix M or the view V itself
DoViewT(X) ==
  /\ MatExists(X)
  /\ Commit(Rec("ViewT", X), heap, vecs, [mats EXCEPT !["V"] = T(mats[X])])

\* finite compositions of Slice and T over the matrix M
NextView ==
  \/ \E X \in MatNames :
       \E rfrom, rto \in 0..mats[X].rows, cfrom, cto \in 0..mats[X].cols :
         DoViewSlice(X, rfrom, rto, cfrom, cto)
  \/ \E X \in MatNames : DoViewT(X)

SpecView == InitM /\ [][NextView]_vars


(* ------------------------------------------------------------------------ *)
(* text: formatting and parsing                                             *)
(* ------------------------------------------------------------------------ *)

\* a text is a sequence of characters, a file a sequence of lines
Digits == <<"0", "1", "2", "3", "4", "5", "6", "7", "8", "9">>

IsDigit(c) == \E d \in DOMAIN Digits : Digits[d] = c

DigitValue(c) == (CHOOSE d \in DOMAIN Digits : Digits[d] = c) - 1

\* fmt "%d"
RECURSIVE FormatNat(_)
FormatNat(k) ==
  IF k < 10 THEN <<Digits[k + 1]>>
  ELSE FormatNat(k \div 10) \o <<Digits[(k % 10) + 1]>>

FormatInt(k) == IF k < 0 THEN <<"-">> \o FormatNat(0 - k) ELSE FormatNat(k)

\* fmt "%s" of a scalar: its value (the values of the model are integers)
FormatScalar(s) == FormatInt(s.val)

RECURSIVE ParseNat(_, _)
ParseNat(s, acc) ==
  IF s = <<>> THEN [err |-> FALSE, val |-> acc]
  ELSE IF ~IsDigit(Head(s)) THEN [err |-> TRUE, val |-> 0]
  ELSE ParseNat(Tail(s), 10 * acc + DigitValue(Head(s)))

\* strconv.ParseInt(s, 10, 64): an optional sign and at least one digit
ParseInt(s) ==
  LET signed == s # <<>> /\ Head(s) \in {"-", "+"}
      digits == IF signed THEN Tail(s) ELSE s
      r      == ParseNat(digits, 0)
  IN  IF digits = <<>> \/ r.err THEN [err |-> TRUE, val |-> 0]
      ELSE [err |-> FALSE, val |-> IF signed /\ Head(s) = "-" THEN 0 - r.val ELSE r.val]

\* strconv.ParseFloat(s, 64), for the texts FormatScalar produces and for
\* texts that are no number
ParseFloat(s) == ParseInt(s)

\* strings.Split(s, sep): the parts between the separators, empty ones kept
RECURSIVE SplitLoop(_, _, _, _)
SplitLoop(s, sep, part, parts) ==
  IF s = <<>> THEN Append(parts, part)
  ELSE IF Head(s) = sep THEN SplitLoop(Tail(s), sep, <<>>, Append(parts, part))
  ELSE SplitLoop(Tail(s), sep, Append(part, Head(s)), parts)

Split(s, sep) == SplitLoop(s, sep, <<>>, <<>>)

\* strings.Fields(s): the parts between runs of spaces
Fields(s) == SelectSeq(Split(s, " "), LAMBDA part : part # <<>>)

(* ------------------------------------------------------------------------ *)
(* sparse vector: table export and import                                   *)
(* ------------------------------------------------------------------------ *)

\* the tokens of Table, one per entry the iterator visits
RECURSIVE TableLoop(_, _, _, _)
TableLoop(h, vec, seen, buffer) ==
  IF seen = <<>> THEN buffer
  ELSE LET k     == Head(seen)
           token == FormatInt(k) \o <<":">> \o FormatScalar(h[vec.values[k]])
       IN  TableLoop(h, vec, Tail(seen),
                     IF buffer = <<>> THEN token ELSE buffer \o <<" ">> \o token)

\* a table without the zero token for the last index
Table_noLastIndex(h, obj) ==
  LET r == Iterate(h, obj) IN
  [panic |-> r.panic,
   vec   |-> r.vec,
   text  |-> IF r.panic THEN <<>> ELSE TableLoop(h, r.vec, r.seen, <<>>)]

\* Table(): the visited entries as index:value tokens, and a zero token for
\* the last index if it holds no entry (text: the line, vec: the receiver
\* after the iteration)
Table(h, obj) ==
  LET r    == Iterate(h, obj)
      body == IF r.panic THEN <<>> ELSE TableLoop(h, r.vec, r.seen, <<>>)
      i    == r.vec.n - 1
  IN  [panic |-> r.panic,
       vec   |-> r.vec,
       text  |-> IF i \in DOMAIN r.vec.values THEN body
                 ELSE body \o (IF i # 0 THEN <<" ">> ELSE <<>>)
                           \o FormatInt(i) \o <<":">> \o FormatScalar(NULL_SCALAR)]

\* the loop of Import over the fields of one line
RECURSIVE ImportFields(_, _, _, _, _)
ImportFields(fields, i, indices, values, n) ==
  IF i > Len(fields) THEN [err |-> FALSE, indices |-> indices, values |-> values, n |-> n]
  ELSE LET split == Split(fields[i], ":")
           k     == ParseInt(split[1])
           v     == ParseFloat(split[2])
       IN  IF Len(split) # 2 \/ k.err \/ v.err
           THEN [err |-> TRUE, indices |-> indices, values |-> values, n |-> n]
           ELSE ImportFields(fields, i + 1, Append(indices, k.val), Append(values, v.val),
                             IF k.val + 1 > n THEN k.val + 1 ELSE n)

\* the loop of Import over the lines of the file
RECURSIVE ImportLines(_, _, _, _, _)
ImportLines(obj, lines, indices, values, n) ==
  IF lines = <<>> THEN [err |-> FALSE, indices |-> indices, values |-> values, n |-> n]
  ELSE LET fields == Fields(Head(lines)) IN
       IF Len(fields) = 0 THEN ImportLines(obj, Tail(lines), indices, values, n)
       ELSE IF Cardinality(DOMAIN obj.values) # 0
       THEN [err |-> TRUE, indices |-> indices, values |-> values, n |-> n]
       ELSE LET r == ImportFields(fields, 1, indices, values, n) IN
            IF r.err THEN r
            ELSE ImportLines(obj, Tail(lines), r.indices, r.values, r.n)

\* Import: parse every line, then replace the receiver by
\* NEW_VECTOR(indices, values, n); an error returns with the receiver as it is
Import(h, obj, lines) ==
  LET p == ImportLines(obj, lines, <<>>, <<>>, 0) IN
  IF p.err THEN [err |-> TRUE, panic |-> FALSE, h |-> h, vec |-> obj]
  ELSE LET r == NEW_VECTOR(h, p.indices, p.values, p.n) IN
       IF r.panic THEN [err |-> FALSE, panic |-> TRUE, h |-> h, vec |-> obj]
       ELSE [err |-> FALSE, panic |-> FALSE, h |-> r.h, vec |-> r.vec]

\* t.Export(file): the file holds the line of Table
DoExport(t) ==
  /\ Exists(t)
  /\ LET r == Table(heap, vecs[t]) IN
     Commit([Rec("Export", t) EXCEPT !.panic = r.panic,
                                     !.out = IF r.panic THEN <<>> ELSE <<r.text>>],
            heap, [vecs EXCEPT ![t] = r.vec], mats)

\* c := NULL_VECTOR(0); c.Import(file), the file written by the last Export
DoImportFresh ==
  /\ hist.op = "Export"
  /\ LET r == Import(heap, NULL_VECTOR(0), hist.out) IN
     Commit([Rec("Import", "c") EXCEPT !.panic = r.panic, !.err = r.err, !.out = hist.out],
            r.h, [vecs EXCEPT !["c"] = r.vec], mats)

\* a sparse vector written to a file and read back
NextTable ==
  \/ DoExport("v")
  \/ DoImportFresh
  \/ \E s \in Scalars : \E i \in 0..(Dim(vecs["v"]) - 1) : DoAt("v", i, s)

SpecTable == InitV /\ [][NextTable]_vars


(* ------------------------------------------------------------------------ *)
(* import of malformed files                                                *)
(* ------------------------------------------------------------------------ *)

\* the tokens on obj.values of the channel variant: every parsed token is
\* stored at once, obj.values[k] = NEW_SCALAR(value), the index is not touched
RECURSIVE ImportFields_chan(_, _, _, _)
ImportFields_chan(h, obj, fields, i) ==
  IF i > Len(fields) THEN [err |-> FALSE, h |-> h, vec |-> obj]
  ELSE LET split == Split(fields[i], ":")
           k     == ParseInt(split[1])
           value == ParseFloat(split[2])
       IN  IF Len(split) # 2 \/ k.err \/ value.err
           THEN [err |-> TRUE, h |-> h, vec |-> obj]
           ELSE ImportFields_chan(Append(h, NEW_SCALAR(value.val)),
                                  [obj EXCEPT !.values = Put(@, k.val, Len(h) + 1),
                                              !.n = IF k.val + 1 > @ THEN k.val + 1 ELSE @],
                                  fields, i + 1)

RECURSIVE ImportLines_chan(_, _, _)
ImportLines_chan(h, obj, lines) ==
  IF lines = <<>> THEN [err |-> FALSE, h |-> h, vec |-> obj]
  ELSE LET fields == Fields(Head(lines)) IN
       IF Len(fields) = 0 THEN ImportLines_chan(h, obj, Tail(lines))
       ELSE IF Cardinality(DOMAIN obj.values) # 0
       THEN [err |-> TRUE, h |-> h, vec |-> obj]
       ELSE LET r == ImportFields_chan(h, obj, fields, 1) IN
            IF r.err THEN r
            ELSE ImportLines_chan(r.h, r.vec, Tail(lines))

\* Import of the channel variant: the receiver is reset to NIL_VECTOR(0),
\* then filled token by token
Import_chan(h, lines) == ImportLines_chan(h, NIL_VECTOR(0), lines)

\* the entry lines of a matrix file: three fields row, column, value
RECURSIVE MatImportLines(_, _, _, _)
MatImportLines(lines, rowIndices, colIndices, values) ==
  IF lines = <<>>
  THEN [err |-> FALSE, rowIndices |-> rowIndices, colIndices |-> colIndices, values |-> values]
  ELSE LET fields == Fields(Head(lines))
           r      == ParseInt(fields[1])
           c      == ParseInt(fields[2])
           v      == ParseFloat(fields[3])
       IN  IF Len(fields) # 3 \/ r.err \/ c.err \/ v.err
           THEN [err |-> TRUE, rowIndices |-> rowIndices, colIndices |-> colIndices,
                 values |-> values]
           ELSE MatImportLines(Tail(lines), Append(rowIndices, r.val),
                               Append(colIndices, c.val), Append(values, v.val))

\* matrix Import: the header line holds rows and cols, every other line an
\* entry; the receiver is replaced by NEW_MATRIX(...) at the end only
MatImport(h, vs, m, lines) ==
  LET stay   == [err |-> TRUE, panic |-> FALSE, h |-> h, vs |-> vs, mat |-> m]
      header == IF lines = <<>> THEN <<>> ELSE Fields(Head(lines))
      rows   == IF lines = <<>> THEN [err |-> FALSE, val |-> 0] ELSE ParseInt(header[1])
      cols   == IF lines = <<>> THEN [err |-> FALSE, val |-> 0] ELSE ParseInt(header[2])
  IN  IF lines # <<>> /\ (Len(header) # 2 \/ rows.err \/ cols.err) THEN stay
      ELSE LET p == MatImportLines(IF lines = <<>> THEN <<>> ELSE Tail(lines),
                                   <<>>, <<>>, <<>>) IN
           IF p.err THEN stay
           ELSE LET r == NEW_MATRIX(h, vs, m.values, rows.val, cols.val,
                                    p.rowIndices, p.colIndices, p.values) IN
                IF r.panic THEN [stay EXCEPT !.err = FALSE, !.panic = TRUE]
                ELSE [err |-> FALSE, panic |-> FALSE, h |-> r.h, vs |-> r.vs, mat |-> r.mat]

\* a text of tokens separated by single blanks
RECURSIVE Join(_)
Join(tokens) ==
  IF tokens = <<>> THEN <<>>
  ELSE IF Len(tokens) = 1 THEN Head(tokens)
  ELSE Head(tokens) \o <<" ">> \o Join(Tail(tokens))

\* the tokens of the vector files: well formed ones, a negative index, a value
\* and an index that are no numbers, a token without and with two colons
VectorTokens ==
  { <<"0", ":", "1">>, <<"1", ":", "1">>, <<"1", ":", "0">>, <<"-", "1", ":", "1">>,
    <<"0", ":", "x">>, <<"x", ":", "1">>, <<"0", "1">>, <<"0", ":", "1", ":", "1">> }

\* the lines of at most MaxLen tokens
VectorLines == UNION {{Join(ts) : ts \in [1..k -> VectorTokens]} : k \in 0..MaxLen}

\* vector files: one line, or a line followed by a line of one token
VectorFiles ==
  {<<l>> : l \in VectorLines} \cup
  {<<l, t>> : l \in VectorLines, t \in VectorTokens}

\* the lines of the matrix files: headers and entries, well formed or not
MatrixHeaders == { <<"2", " ", "2">>, <<"2">>, <<"x", " ", "2">> }

MatrixEntries ==
  { <<"0", " ", "1", " ", "1">>, <<"1", " ", "0", " ", "1">>, <<"2", " ", "0", " ", "1">>,
    <<"0", " ", "-", "1", " ", "1">>, <<"0", " ", "1">>, <<"0", " ", "x", " ", "1">>,
    <<"0", " ", "0", " ", "x">> }

MatrixFiles ==
  UNION {{<<hd>> \o es : hd \in MatrixHeaders, es \in [1..k -> MatrixEntries]} : k \in 0..MaxLen}

\* UnmarshalJSON: the decoded document r = {Index, Value, Length}; a document
\* that does not decode is an error
UnmarshalJSON(h, obj, decodes, Index, Value, Length) ==
  IF ~decodes \/ Len(Index) # Len(Value)
  THEN [err |-> TRUE, panic |-> FALSE, h |-> h, vec |-> obj]
  ELSE LET r == NEW_VECTOR(h, Index, Value, Length) IN
       IF r.panic THEN [err |-> FALSE, panic |-> TRUE, h |-> h, vec |-> obj]
       ELSE [err |-> FALSE, panic |-> FALSE, h |-> r.h, vec |-> r.vec]

\* matrix UnmarshalJSON: r = {Index, Value, Rows, Cols}; the header is reset
\* over a new backing vector of Rows * Cols positions
MatUnmarshalJSON(h, vs, m, decodes, Index, Value, Rows, Cols) ==
  IF ~decodes \/ Len(Index) # Len(Value)
  THEN [err |-> TRUE, panic |-> FALSE, h |-> h, vs |-> vs, mat |-> m]
  ELSE LET r == NEW_VECTOR(h, Index, Value, Rows * Cols) IN
       IF r.panic THEN [err |-> FALSE, panic |-> TRUE, h |-> h, vs |-> vs, mat |-> m]
       ELSE [err |-> FALSE, panic |-> FALSE, h |-> r.h,
             vs  |-> [vs EXCEPT ![m.values] = r.vec],
             mat |-> initTmp([m EXCEPT !.rows = Rows, !.rowMax = Rows, !.rowOffset = 0,
                                       !.cols = Cols, !.colMax = Cols, !.colOffset = 0,
                                       !.transposed = FALSE])]

\* the Index and Value lists of the JSON documents
JSONIndices == UNION {[1..k -> {-1, 0, 1, 2}] : k \in 0..MaxLen}

JSONValues == UNION {[1..k -> {0, 1}] : k \in 0..MaxLen}

\* the targets: v with or without entries, M with or without an entry
ImportTargets(S, filled) ==
  LET rv == Build(<<>>, 2, S, [k \in 0..1 |-> [val |-> 1, der |-> 0]])
  IN  NEW_MATRIX(rv.h, [NoVecs EXCEPT !["v"] = rv.vec], "m", 2, 2,
                 <<0>>, <<1>>, <<IF filled THEN 1 ELSE 0>>)

\* the targets and the input: a table file (hist.out), or a JSON document
\* with Index = hist.pi, Value = hist.out, Length = Rows = hist.i, Cols = hist.j
InitImport ==
  \E S \in SUBSET {0, 1}, filled \in BOOLEAN :
    LET r == ImportTargets(S, filled) IN
    /\ heap = r.h
    /\ vecs = r.vs
    /\ mats = [NoMats EXCEPT !["M"] = r.mat]
    /\ steps = 0
    /\ run = NoRun
    /\ \/ \E file \in VectorFiles \cup MatrixFiles :
            hist = [NoHist EXCEPT !.op = "input", !.u = "file", !.out = file]
       \/ \E Index \in JSONIndices, Value \in JSONValues, Length \in 1..2, Cols \in 1..2 :
            hist = [NoHist EXCEPT !.op = "input", !.u = "json", !.pi = Index,
                                  !.out = Value, !.i = Length, !.j = Cols]

\* the input of the run, kept from one call to the next
Input(op, t) ==
  [Rec(op, t) EXCEPT !.u = hist.u, !.pi = hist.pi, !.out = hist.out,
                     !.i = hist.i, !.j = hist.j]

\* t.Import(file)
DoImport(t) ==
  /\ Exists(t)
  /\ hist.u = "file"
  /\ LET r == Import(heap, vecs[t], hist.out) IN
     Commit([Input("Import", t) EXCEPT !.panic = r.panic, !.err = r.err],
            r.h, [vecs EXCEPT ![t] = r.vec], mats)

\* t.Import(file) of the channel variant
DoImportChan(t) ==
  /\ Exists(t)
  /\ hist.u = "file"
  /\ LET r == Import_chan(heap, hist.out) IN
     Commit([Input("ImportChan", t) EXCEPT !.err = r.err],
            r.h, [vecs EXCEPT ![t] = r.vec], mats)

\* X.Import(file)
DoMatImport(X) ==
  /\ MatExists(X)
  /\ hist.u = "file"
  /\ LET r == MatImport(heap, vecs, mats[X], hist.out) IN
     Commit([Input("MatImport", X) EXCEPT !.panic = r.panic, !.err = r.err],
            r.h, r.vs, [mats EXCEPT ![X] = r.mat])

\* t.UnmarshalJSON(data)
DoUnmarshalJSON(t) ==
  /\ Exists(t)
  /\ hist.u = "json"
  /\ LET r == UnmarshalJSON(heap, vecs[t], TRUE, hist.pi, hist.out, hist.i) IN
     Commit([Input("UnmarshalJSON", t) EXCEPT !.panic = r.panic, !.err = r.err],
            r.h, [vecs EXCEPT ![t] = r.vec], mats)

\* X.UnmarshalJSON(data)
DoMatUnmarshalJSON(X) ==
  /\ MatExists(X)
  /\ hist.u = "json"
  /\ LET r == MatUnmarshalJSON(heap, vecs, mats[X], TRUE, hist.pi, hist.out, hist.i, hist.j) IN
     Commit([Input("MatUnmarshalJSON", X) EXCEPT !.panic = r.panic, !.err = r.err],
            r.h, r.vs, [mats EXCEPT ![X] = r.mat])

NextImport ==
  \/ DoImport("v")
  \/ DoImportChan("v")
  \/ DoMatImport("M")
  \/ DoUnmarshalJSON("v")
  \/ DoMatUnmarshalJSON("M")

SpecImport == InitImport /\ [][NextImport]_vars


(* ------------------------------------------------------------------------ *)
(* permutations that are none                                               *)
(* ------------------------------------------------------------------------ *)

\* the lists Permute is called with: any length up to MaxDim, entries in and
\* out of range, repeated or not
PiInputs == UNION {[1..k -> -1..MaxDim] : k \in 0..MaxDim}

NextPermute == \E pi \in PiInputs : DoPermute(pi)

SpecPermute == InitV /\ [][NextPermute]_vars


(* ------------------------------------------------------------------------ *)
(* sparse matrix: swaps and permutations of rows and columns                *)
(* ------------------------------------------------------------------------ *)

\* matrix.Swap(i1, j1, i2, j2) = matrix.values.Swap(index(i1, j1), index(i2, j2))
MatSwap(vs, matrix, i1, j1, i2, j2) ==
  IF indexPanics(matrix, i1, j1) \/ indexPanics(matrix, i2, j2)
  THEN [panic |-> TRUE, vs |-> vs]
  ELSE [panic |-> FALSE,
        vs |-> [vs EXCEPT ![matrix.values] =
                  Swap(@, index(matrix, i1, j1), index(matrix, i2, j2))]]

\* the loop of SwapRows (rows = TRUE) and SwapColumns over k
RECURSIVE SwapLine(_, _, _, _, _, _)
SwapLine(vs, matrix, rows, i, j, k) ==
  IF k >= (IF rows THEN matrix.cols ELSE matrix.rows) THEN [panic |-> FALSE, vs |-> vs]
  ELSE LET r == IF rows THEN MatSwap(vs, matrix, i, k, j, k)
                ELSE MatSwap(vs, matrix, k, i, k, j)
       IN  IF r.panic THEN r ELSE SwapLine(r.vs, matrix, rows, i, j, k + 1)

SwapRows(vs, matrix, i, j) ==
  IF matrix.rows # matrix.cols THEN [err |-> TRUE, panic |-> FALSE, vs |-> vs]
  ELSE [err |-> FALSE] @@ SwapLine(vs, matrix, TRUE, i, j, 0)

SwapColumns(vs, matrix, i, j) ==
  IF matrix.rows # matrix.cols THEN [err |-> TRUE, panic |-> FALSE, vs |-> vs]
  ELSE [err |-> FALSE] @@ SwapLine(vs, matrix, FALSE, i, j, 0)

\* the loop of PermuteRows (kind "rows"), PermuteColumns ("columns") and
\* SymmetricPermutation ("symmetric") over i; pi[i] past the end of pi panics
RECURSIVE PermuteLines(_, _, _, _, _)
PermuteLines(vs, matrix, kind, pi, i) ==
  IF i >= matrix.rows THEN [err |-> FALSE, panic |-> FALSE, vs |-> vs]
  ELSE IF i >= Len(pi) THEN [err |-> FALSE, panic |-> TRUE, vs |-> vs]
  ELSE LET p == pi[i + 1] IN
       IF p < 0 \/ p > matrix.rows THEN [err |-> TRUE, panic |-> FALSE, vs |-> vs]
       ELSE IF p > i
       THEN LET r1 == IF kind = "columns" THEN [err |-> FALSE, panic |-> FALSE, vs |-> vs]
                      ELSE SwapRows(vs, matrix, i, p)
                r2 == IF kind = "rows" \/ r1.panic THEN r1
                      ELSE SwapColumns(r1.vs, matrix, i, p)
            IN  IF r2.panic THEN [err |-> FALSE, panic |-> TRUE, vs |-> r2.vs]
                ELSE PermuteLines(r2.vs, matrix, kind, pi, i + 1)
       ELSE PermuteLines(vs, matrix, kind, pi, i + 1)

\* PermuteRows, PermuteColumns, SymmetricPermutation
MatPermute(vs, matrix, kind, pi) ==
  IF matrix.rows # matrix.cols THEN [err |-> TRUE, panic |-> FALSE, vs |-> vs]
  ELSE PermuteLines(vs, matrix, kind, pi, 0)

\* M.SwapRows(i, j), M.SwapColumns(i, j)
DoSwapLines(rows, i, j) ==
  /\ MatExists("M")
  /\ LET r == IF rows THEN SwapRows(vecs, mats["M"], i, j)
              ELSE SwapColumns(vecs, mats["M"], i, j)
     IN  Commit([Rec(IF rows THEN "SwapRows" ELSE "SwapColumns", "M") EXCEPT
                   !.i = i, !.j = j, !.err = r.err, !.panic = r.panic],
                heap, r.vs, mats)

\* M.PermuteRows(pi), M.PermuteColumns(pi), M.SymmetricPermutation(pi)
DoMatPermute(kind, pi) ==
  /\ MatExists("M")
  /\ LET r == MatPermute(vecs, mats["M"], kind, pi) IN
     Commit([Rec("MatPermute", "M") EXCEPT !.u = kind, !.pi = pi,
                                           !.err = r.err, !.panic = r.panic],
            heap, r.vs, mats)

\* the lists the matrix permutations are called with: one entry per row,
\* entries in and out of range
MatPiInputs(n) == [1..n -> -1..n]

NextMatPermute ==
  \/ \E rows \in BOOLEAN :
       \E i \in 0..(mats["M"].rows - 1), j \in 0..(mats["M"].cols - 1) :
         DoSwapLines(rows, i, j)
  \/ \E kind \in {"rows", "columns", "symmetric"} :
       \E pi \in MatPiInputs(mats["M"].rows) : DoMatPermute(kind, pi)

SpecMatPermute == InitM /\ [][NextMatPermute]_vars


(* ------------------------------------------------------------------------ *)
(* the joint iterators over sparse vectors only                             *)
(* ------------------------------------------------------------------------ *)

\* VECTOR_JOINT_ITERATOR_.Ok
JointOk_(s1, s2) == s1 # NilRef \/ s2 # NilRef

\* JOINT_ITERATOR_(b): both iterators at their first index, then one Next
\* (Next is the one of VECTOR_JOINT_ITERATOR, without the constant zero)
JOINT_ITERATOR_(h, obj, b) ==
  LET i1 == ITERATOR(obj)
      i2 == ITERATOR(b)
  IN  JointNext(h, i1.vec, i2.vec, i1.rest, i2.rest, -1)

\* for it := obj.JOINT_ITERATOR_(b); it.Ok(); it.Next() { }
RECURSIVE JointLoop_(_, _, _)
JointLoop_(h, st, out) ==
  IF st.panic THEN [panic |-> TRUE, h |-> h, a |-> st.a, b |-> st.b, out |-> out]
  ELSE IF ~JointOk_(st.s1, st.s2)
  THEN [panic |-> FALSE, h |-> h, a |-> st.a, b |-> st.b, out |-> out]
  ELSE LET e == [idx |-> st.idx, s1 |-> st.s1, s2 |-> st.s2,
                 v1 |-> IF st.s1 = NilRef THEN 0 ELSE h[st.s1].val,
                 v2 |-> ConstOf(h, st.s2).val]
       IN  JointLoop_(h, JointNext(h, st.a, st.b, st.r1, st.r2, st.idx), Append(out, e))

JointRead_(h, obj, x) == JointLoop_(h, JOINT_ITERATOR_(h, obj, x), <<>>)

\* VECTOR_JOINT3_ITERATOR_.Next; r1, r2, r3 are the three iterators
Joint3Next(h, a, b, c, r1, r2, r3, idx) ==
  LET ok1    == r1 # <<>>
      ok2    == r2 # <<>>
      ok3    == r3 # <<>>
      idx1   == IF ok1 THEN Head(r1) ELSE idx
      s1a    == IF ok1 THEN GET(a, Head(r1)) ELSE NilRef
      first2 == ok2 /\ (idx1 > Head(r2) \/ ~ok1)
      eq2    == ok2 /\ ~first2 /\ idx1 = Head(r2)
      idx2   == IF first2 THEN Head(r2) ELSE idx1
      s1b    == IF first2 THEN NilRef ELSE s1a
      s2b    == IF first2 \/ eq2 THEN GET(b, Head(r2)) ELSE NilRef
      first3 == ok3 /\ (idx2 > Head(r3) \/ (~ok1 /\ ~ok2))
      eq3    == ok3 /\ ~first3 /\ idx2 = Head(r3)
      s1     == IF first3 THEN NilRef ELSE s1b
      s2     == IF first3 THEN NilRef ELSE s2b
      s3     == IF first3 \/ eq3 THEN GET(c, Head(r3)) ELSE NilRef
      n1     == IF s1 # NilRef THEN ItNext(h, a, r1)
                ELSE [panic |-> FALSE, vec |-> a, rest |-> r1]
      n2     == IF s2 # NilRef THEN ItNext(h, b, r2)
                ELSE [panic |-> FALSE, vec |-> b, rest |-> r2]
      n3     == IF s3 # NilRef THEN ItNext(h, c, r3)
                ELSE [panic |-> FALSE, vec |-> c, rest |-> r3]
  IN  [panic |-> n1.panic \/ n2.panic \/ n3.panic,
       a |-> n1.vec, b |-> n2.vec, c |-> n3.vec,
       r1 |-> n1.rest, r2 |-> n2.rest, r3 |-> n3.rest,
       idx |-> IF first3 THEN Head(r3) ELSE idx2, s1 |-> s1, s2 |-> s2, s3 |-> s3]

\* VECTOR_JOINT3_ITERATOR_.Ok
Joint3Ok_(s1, s2, s3) == s1 # NilRef \/ s2 # NilRef \/ s3 # NilRef

\* JOINT3_ITERATOR_(b, c)
JOINT3_ITERATOR_(h, obj, b, c) ==
  LET i1 == ITERATOR(obj)
      i2 == ITERATOR(b)
      i3 == ITERATOR(c)
  IN  Joint3Next(h, i1.vec, i2.vec, i3.vec, i1.rest, i2.rest, i3.rest, -1)

\* for it := obj.JOINT3_ITERATOR_(b, c); it.Ok(); it.Next() { }
RECURSIVE Joint3Loop_(_, _, _)
Joint3Loop_(h, st, out) ==
  IF st.panic \/ ~Joint3Ok_(st.s1, st.s2, st.s3)
  THEN [panic |-> st.panic, h |-> h, a |-> st.a, b |-> st.b, c |-> st.c, out |-> out]
  ELSE LET e == [idx |-> st.idx, s1 |-> st.s1, s2 |-> st.s2, s3 |-> st.s3,
                 v1 |-> ConstOf(h, st.s1).val,
                 v2 |-> ConstOf(h, st.s2).val,
                 v3 |-> ConstOf(h, st.s3).val]
       IN  Joint3Loop_(h, Joint3Next(h, st.a, st.b, st.c, st.r1, st.r2, st.r3, st.idx),
                       Append(out, e))

Joint3Read_(h, obj, b, c) == Joint3Loop_(h, JOINT3_ITERATOR_(h, obj, b, c), <<>>)

\* v, x and c: three sparse vectors of the same dimension; the entries of c
\* hold one value
InitVXC ==
  \E n \in 1..MaxDim :
    \E cv \in Contents(n, OperandScalars), cx \in Contents(n, OperandScalars),
       S \in SUBSET (0..(n - 1)), z \in OperandScalars :
      LET rv == Build(<<>>, n, cv[1], cv[2])
          rx == Build(rv.h, n, cx[1], cx[2])
          rc == Build(rx.h, n, S, [k \in 0..(n - 1) |-> z])
      IN  /\ heap = rc.h
          /\ vecs = [NoVecs EXCEPT !["v"] = rv.vec, !["x"] = rx.vec, !["c"] = rc.vec]
          /\ mats = NoMats
          /\ hist = NoHist
          /\ steps = 0
          /\ run = NoRun

\* for it := t.JOINT_ITERATOR_(u); it.Ok(); it.Next() { }
DoJoint_(t, u) ==
  /\ Exists(t) /\ Exists(u) /\ t # u
  /\ ~vecs[t].dense /\ ~vecs[u].dense
  /\ LET r == JointRead_(heap, vecs[t], vecs[u]) IN
     Commit([Rec("Joint_", t) EXCEPT !.u = u, !.panic = r.panic, !.out = r.out],
            r.h, [vecs EXCEPT ![t] = r.a, ![u] = r.b], mats)

\* for it := t.JOINT3_ITERATOR_(u, w); it.Ok(); it.Next() { }
DoJoint3_(t, u, w) ==
  /\ Exists(t) /\ Exists(u) /\ Exists(w) /\ t # u /\ t # w /\ u # w
  /\ ~vecs[t].dense /\ ~vecs[u].dense /\ ~vecs[w].dense
  /\ LET r == Joint3Read_(heap, vecs[t], vecs[u], vecs[w]) IN
     Commit([Rec("Joint3_", t) EXCEPT !.u = u, !.panic = r.panic, !.out = r.out],
            r.h, [vecs EXCEPT ![t] = r.a, ![u] = r.b, ![w] = r.c], mats)

\* the joint iterations of v with x, and with x and c
NextJointOk ==
  \/ DoJoint("v", "x")
  \/ DoJoint_("v", "x")
  \/ DoJoint3_("v", "x", "c")

SpecJointOk == InitVXC /\ [][NextJointOk]_vars


(* ------------------------------------------------------------------------ *)
(* the three-way joint iterator over vectors without stored zeros           *)
(* ------------------------------------------------------------------------ *)

\* VECTOR_JOINT3_ITERATOR.Ok that looks at the first scalar only
Joint3Ok_firstOnly(h, s1, s2, s3) ==
  ~(s1 = NilRef \/ h[s1].val = 0)

\* VECTOR_JOINT3_ITERATOR.Ok
Joint3Ok(h, s1, s2, s3) ==
  \/ ~(s1 = NilRef \/ h[s1].val = 0)
  \/ ~(s2 = NilRef \/ h[s2].val = 0)
  \/ ~(s3 = NilRef \/ h[s3].val = 0)

\* JOINT3_ITERATOR(b, c): Next is the one of VECTOR_JOINT3_ITERATOR_, with the
\* constant zero (NilRef here) for a side without entry
JOINT3_ITERATOR(h, obj, b, c) ==
  LET i1 == ITERATOR(obj)
      i2 == ITERATOR(b)
      i3 == ITERATOR(c)
  IN  Joint3Next(h, i1.vec, i2.vec, i3.vec, i1.rest, i2.rest, i3.rest, -1)

\* for it := obj.JOINT3_ITERATOR(b, c); it.Ok(); it.Next() { }
RECURSIVE Joint3Loop(_, _, _)
Joint3Loop(h, st, out) ==
  IF st.panic \/ ~Joint3Ok(h, st.s1, st.s2, st.s3)
  THEN [panic |-> st.panic, h |-> h, a |-> st.a, b |-> st.b, c |-> st.c, out |-> out]
  ELSE LET e == [idx |-> st.idx, s1 |-> st.s1, s2 |-> st.s2, s3 |-> st.s3,
                 v1 |-> ConstOf(h, st.s1).val,
                 v2 |-> ConstOf(h, st.s2).val,
                 v3 |-> ConstOf(h, st.s3).val]
       IN  Joint3Loop(h, Joint3Next(h, st.a, st.b, st.c, st.r1, st.r2, st.r3, st.idx),
                      Append(out, e))

\* v, x and c: three sparse vectors of the same dimension, every stored value
\* nonzero (1 in v, -1 in x, the index plus one in c)
InitNonzero3 ==
  \E n \in 1..MaxDim :
    \E Sv \in SUBSET (0..(n - 1)), Sx \in SUBSET (0..(n - 1)), Sc \in SUBSET (0..(n - 1)) :
      LET rv == Build(<<>>, n, Sv, [k \in 0..(n - 1) |-> [val |-> 1, der |-> 0]])
          rx == Build(rv.h, n, Sx, [k \in 0..(n - 1) |-> [val |-> -1, der |-> 0]])
          rc == Build(rx.h, n, Sc, [k \in 0..(n - 1) |-> [val |-> k + 1, der |-> 0]])
      IN  /\ heap = rc.h
          /\ vecs = [NoVecs EXCEPT !["v"] = rv.vec, !["x"] = rx.vec, !["c"] = rc.vec]
          /\ mats = NoMats
          /\ hist = NoHist
          /\ steps = 0
          /\ run = NoRun

\* for it := t.JOINT3_ITERATOR(u, w); it.Ok(); it.Next() { }
DoJoint3(t, u, w) ==
  /\ Exists(t) /\ Exists(u) /\ Exists(w) /\ t # u /\ t # w /\ u # w
  /\ LET r == Joint3Loop(heap, JOINT3_ITERATOR(heap, vecs[t], vecs[u], vecs[w]), <<>>) IN
     Commit([Rec("Joint3", t) EXCEPT !.u = u, !.panic = r.panic, !.out = r.out],
            r.h, [vecs EXCEPT ![t] = r.a, ![u] = r.b, ![w] = r.c], mats)

NextJoint3 ==
  \/ DoJoint3("v", "x", "c")
  \/ DoJoint3_("v", "x", "c")

SpecJoint3 == InitNonzero3 /\ [][NextJoint3]_vars


(* ------------------------------------------------------------------------ *)
(* sparse matrix: Set and Reset run over the iterator of the backing vector *)
(* ------------------------------------------------------------------------ *)

\* the loop of a.Set(b): for it := a.Iterator(); it.Ok(); it.Next()
\*   { i, j := it.Index(); it.Get().Set(b.ConstAt(i, j)) }
RECURSIVE MatSetLoop(_, _, _, _, _)
MatSetLoop(h, vs, a, b, rest) ==
  IF rest = <<>> THEN [panic |-> FALSE, h |-> h, vs |-> vs]
  ELSE LET p   == ij(a, Head(rest))
           ref == GET(vs[a.values], Head(rest))
       IN  IF ref = NilRef \/ MatReadPanics(vs, b, p[1], p[2])
           THEN [panic |-> TRUE, h |-> h, vs |-> vs]
           ELSE LET h2 == ScalarSet(h, ref, MatConstAt(h, vs, b, p[1], p[2]))
                    nx == ItNext(h2, vs[a.values], rest)
                IN  IF nx.panic THEN [panic |-> TRUE, h |-> h2, vs |-> vs]
                    ELSE MatSetLoop(h2, [vs EXCEPT ![a.values] = nx.vec], a, b, nx.rest)

\* a.Set(b)
MatSet(h, vs, a, b) ==
  IF a.rows # b.rows \/ a.cols # b.cols THEN [panic |-> TRUE, h |-> h, vs |-> vs]
  ELSE LET it == ITERATOR(vs[a.values]) IN
       MatSetLoop(h, [vs EXCEPT ![a.values] = it.vec], a, b, it.rest)

\* M and V: two matrices of one shape, each with a backing vector of its own;
\* V holds 10, 11, ... at its filled positions
InitMV ==
  \E shape \in Shapes, fa \in Fillings, fb \in Fillings :
    LET rows == shape[1]
        cols == shape[2]
        pos  == Positions(rows, cols)
        ri   == [k \in DOMAIN pos |-> pos[k][1]]
        ci   == [k \in DOMAIN pos |-> pos[k][2]]
        ra   == NEW_MATRIX(<<>>, NoVecs, "m", rows, cols, ri, ci,
                           [k \in DOMAIN pos |->
                              IF Filled(fa, pos[k][1], pos[k][2]) THEN k ELSE 0])
        rb   == NEW_MATRIX(ra.h, ra.vs, "mc", rows, cols, ri, ci,
                           [k \in DOMAIN pos |->
                              IF Filled(fb, pos[k][1], pos[k][2]) THEN 9 + k ELSE 0])
    IN  /\ heap = rb.h
        /\ vecs = rb.vs
        /\ mats = [NoMats EXCEPT !["M"] = ra.mat, !["V"] = rb.mat]
        /\ hist = NoHist
        /\ steps = 0
        /\ run = NoRun

\* X.Set(Y)
DoMatSet(X, Y) ==
  /\ MatExists(X) /\ MatExists(Y)
  /\ LET r == MatSet(heap, vecs, mats[X], mats[Y]) IN
     Commit([Rec("MatSet", X) EXCEPT !.u = Y, !.panic = r.panic], r.h, r.vs, mats)

NextMatSet ==
  \/ DoMatSet("M", "V")
  \/ \E s \in MatScalars :
       \E i \in 0..(mats["M"].rows - 1), j \in 0..(mats["M"].cols - 1) :
         DoMatAt("M", i, j, s)

SpecMatSet == InitMV /\ [][NextMatSet]_vars


\* the loop of matrix.Reset(): for it := matrix.Iterator(); it.Ok(); it.Next()
\*   { it.Get().Reset() }, the iterator being the one of the backing vector
RECURSIVE MatResetLoop(_, _, _, _)
MatResetLoop(h, vs, matrix, rest) ==
  IF rest = <<>> THEN [panic |-> FALSE, h |-> h, vs |-> vs]
  ELSE LET ref == GET(vs[matrix.values], Head(rest)) IN
       IF ref = NilRef THEN [panic |-> TRUE, h |-> h, vs |-> vs]
       ELSE LET h2 == ScalarReset(h, ref)
                nx == ItNext(h2, vs[matrix.values], rest)
            IN  IF nx.panic THEN [panic |-> TRUE, h |-> h2, vs |-> vs]
                ELSE MatResetLoop(h2, [vs EXCEPT ![matrix.values] = nx.vec], matrix, nx.rest)

\* matrix.Reset()
MatReset(h, vs, matrix) ==
  LET it == ITERATOR(vs[matrix.values]) IN
  MatResetLoop(h, [vs EXCEPT ![matrix.values] = it.vec], matrix, it.rest)

\* X.Reset()
DoMatReset(X) ==
  /\ MatExists(X)
  /\ LET r == MatReset(heap, vecs, mats[X]) IN
     Commit([Rec("MatReset", X) EXCEPT !.panic = r.panic], r.h, r.vs, mats)

\* the matrix M, a view V of it made by Slice, and Reset on either
NextMatReset ==
  \/ \E rfrom, rto \in 0..mats["M"].rows, cfrom, cto \in 0..mats["M"].cols :
       DoMatSlice(rfrom, rto, cfrom, cto)
  \/ \E X \in MatNames : DoMatReset(X)

SpecMatReset == InitM /\ [][NextMatReset]_vars


(* ------------------------------------------------------------------------ *)
(* sparse matrix: AsVector                                                  *)
(* ------------------------------------------------------------------------ *)

\* the copying loop of AsVector: for it := matrix.ConstIterator(); ...
\*   { i, j := it.Index(); v.At(i*matrix.cols + j).Set(matrix.ConstAt(i, j)) }
RECURSIVE AsVectorLoop(_, _, _, _, _)
AsVectorLoop(h, vs, matrix, v, rest) ==
  IF rest = <<>> THEN [panic |-> FALSE, h |-> h, vs |-> vs, vec |-> v]
  ELSE LET p == ij(matrix, Head(rest)) IN
       IF MatReadPanics(vs, matrix, p[1], p[2])
       THEN [panic |-> TRUE, h |-> h, vs |-> vs, vec |-> v]
       ELSE LET w  == AtSet(h, v, p[1] * matrix.cols + p[2],
                            MatConstAt(h, vs, matrix, p[1], p[2]))
                nx == ItNext(w.h, vs[matrix.values], rest)
            IN  IF w.panic \/ nx.panic
                THEN [panic |-> TRUE, h |-> w.h, vs |-> vs, vec |-> w.vec]
                ELSE AsVectorLoop(w.h, [vs EXCEPT ![matrix.values] = nx.vec], matrix,
                                  w.vec, nx.rest)

\* AsVector(): a copy when the view is smaller than what lies behind its
\* offsets, the backing vector itself otherwise
AsVector(h, vs, matrix) ==
  IF \/ matrix.cols < matrix.colMax - matrix.colOffset
     \/ matrix.rows < matrix.rowMax - matrix.rowOffset
  THEN LET it == ITERATOR(vs[matrix.values]) IN
       AsVectorLoop(h, [vs EXCEPT ![matrix.values] = it.vec], matrix,
                    NIL_VECTOR(matrix.rows * matrix.cols), it.rest)
  ELSE [panic |-> FALSE, h |-> h, vs |-> vs, vec |-> vs[matrix.values]]

\* c := X.AsVector()
DoAsVector(X) ==
  /\ MatExists(X)
  /\ LET r == AsVector(heap, vecs, mats[X]) IN
     Commit([Rec("AsVector", X) EXCEPT !.panic = r.panic],
            r.h, [r.vs EXCEPT !["c"] = r.vec], mats)

\* the views of M made by Slice and T, read as vectors
NextAsVector ==
  \/ NextView
  \/ \E X \in MatNames : DoAsVector(X)

SpecAsVector == InitM /\ [][NextAsVector]_vars



(* ------------------------------------------------------------------------ *)
(* loops that write into the vector they iterate over                       *)
(* ------------------------------------------------------------------------ *)

\* weights of a gradient
Weights == {1, 2}

\* body of the loop in GradientSparse.add (sign 1) and sub (sign -1)
GradientBody(h, v, st, w, sign) ==
  LET a  == IF st.s1 = NilRef THEN AT(h, v, st.idx)
            ELSE [panic |-> FALSE, h |-> h, vec |-> v, ref |-> st.s1]
  IN  IF a.panic \/ a.ref = NilRef THEN [panic |-> TRUE, h |-> a.h, vec |-> a.vec]
      ELSE IF st.s2 # NilRef
      THEN [panic |-> FALSE,
            h     |-> ScalarSetValue(a.h, a.ref, a.h[a.ref].val + sign * w * a.h[st.s2].val),
            vec   |-> a.vec]
      ELSE [panic |-> FALSE, h |-> a.h, vec |-> a.vec]

\* for it := v.JOINT_ITERATOR_(obj.g); it.Ok(); it.Next() { body }
RECURSIVE GradientLoop(_, _, _, _, _)
GradientLoop(h, st, w, sign, out) ==
  IF st.panic THEN [panic |-> TRUE, h |-> h, a |-> st.a, b |-> st.b, out |-> out]
  ELSE IF ~JointOk_(st.s1, st.s2)
  THEN [panic |-> FALSE, h |-> h, a |-> st.a, b |-> st.b, out |-> out]
  ELSE LET e  == [idx |-> st.idx, s1 |-> st.s1, s2 |-> st.s2,
                  v1 |-> IF st.s1 = NilRef THEN 0 ELSE h[st.s1].val,
                  v2 |-> ConstOf(h, st.s2).val]
           bd == GradientBody(h, st.a, st, w, sign)
       IN  IF bd.panic
           THEN [panic |-> TRUE, h |-> bd.h, a |-> bd.vec, b |-> st.b,
                 out |-> Append(out, e)]
           ELSE GradientLoop(bd.h, JointNext(bd.h, bd.vec, st.b, st.r1, st.r2, st.idx),
                             w, sign, Append(out, e))

\* GradientSparse{g, w}.add(v) and .sub(v)
GradientAdd(h, v, g, w, sign) == GradientLoop(h, JOINT_ITERATOR_(h, v, g), w, sign, <<>>)

\* GradientSparse{u, w}.add(t) and .sub(t); the weight is kept in hist.i
DoGradient(t, u, w, sign) ==
  /\ Exists(t) /\ Exists(u) /\ t # u
  /\ ~vecs[t].dense /\ ~vecs[u].dense
  /\ LET r == GradientAdd(heap, vecs[t], vecs[u], w, sign) IN
     Commit([Rec(IF sign = 1 THEN "add" ELSE "sub", t)
               EXCEPT !.u = u, !.i = w, !.panic = r.panic, !.out = r.out],
            r.h, [vecs EXCEPT ![t] = r.a, ![u] = r.b], mats)

\* a sparse vector v and a sparse gradient x of the same dimension
InitVG ==
  \E n \in 1..MaxDim :
    \E cv \in Contents(n, OperandScalars), cx \in Contents(n, OperandScalars) :
      LET rv == Build(<<>>, n, cv[1], cv[2])
          rx == Operand(rv.h, n, FALSE, cx)
      IN  /\ heap = rx.h
          /\ vecs = [NoVecs EXCEPT !["v"] = rv.vec, !["x"] = rx.vec]
          /\ mats = NoMats
          /\ hist = NoHist
          /\ steps = 0
          /\ run = NoRun

NextVivify ==
  \/ DoSet("v", "x")
  \/ \E w \in Weights : DoGradient("v", "x", w, 1)
  \/ \E w \in Weights : DoGradient("v", "x", w, -1)

SpecVivify == InitVG /\ [][NextVivify]_vars


(* ------------------------------------------------------------------------ *)
(* channel-based variant: Set over JOINT_RANGE, goroutine by goroutine      *)
(* ------------------------------------------------------------------------ *)

\* INDEX_SLICE.sort: sorts the shared array; the receiver is a copy, so the
\* flag it sets is lost
sort_chan(ix) == IF ix.isSorted THEN ix ELSE [ix EXCEPT !.values = SortInts(ix.values)]

\* the entry the joint producer builds from what it last received
JointEntry(r1, ok1, r2, ok2) ==
  LET a == IF ok1 THEN [Index |-> r1.Index, Value1 |-> r1.Value, Value2 |-> NilRef]
           ELSE NoEntry
  IN  IF ok2 /\ a.Index > r2.Index
      THEN [Index |-> r2.Index, Value1 |-> NilRef, Value2 |-> r2.Value]
      ELSE IF ok2 /\ a.Index = r2.Index
      THEN [a EXCEPT !.Value2 = r2.Value]
      ELSE a

\* the entry received by the loop of Set makes the loop body insert into
\* the map of the vector
Inserts(vec, entry) == entry.Value1 = NilRef /\ entry.Index \notin DOMAIN vec.values

\* the steps of the goroutines leave the record of operations alone
RunStep(h2, vs2, run2) ==
  /\ ~run.crash
  /\ heap' = h2
  /\ vecs' = vs2
  /\ run'  = run2
  /\ UNCHANGED <<mats, hist, steps>>

\* v.Set(x): the dimensions match; JOINT_RANGE makes the channel and starts
\* the joint producer, and the loop waits for the first entry
SetStart ==
  /\ run.main = "call"
  /\ Dim(vecs["v"]) = Dim(vecs["x"])
  /\ RunStep(heap, vecs, [run EXCEPT !.main = "recv", !.j = "start"])

\* joint producer: sorts the index of v and starts the two producers
JointStart ==
  /\ run.j = "start"
  /\ RunStep(heap, [vecs EXCEPT !["v"].index = sort_chan(@)],
             [run EXCEPT !.j = "recv1", !.p1.pc = "start", !.p2.pc = "start"])

\* RANGE / ConstRange: sorts the index; the loop runs over the index as it
\* is now
RangeStart(p, t) ==
  /\ run[p].pc = "start"
  /\ RunStep(heap, [vecs EXCEPT ![t].index = sort_chan(@)],
             [run EXCEPT ![p] = [pc |-> "read", rest |-> sort_chan(vecs[t].index).values,
                                 cur |-> NoItem]])

\* RANGE / ConstRange: the next item is read from the map, or the channel
\* is closed
RangeRead(p, t) ==
  /\ run[p].pc = "read"
  /\ IF run[p].rest = <<>>
     THEN RunStep(heap, vecs, [run EXCEPT ![p].pc = "done"])
     ELSE RunStep(heap, vecs,
                  [run EXCEPT ![p].pc  = "send",
                              ![p].cur = [Index |-> Head(run[p].rest),
                                          Value |-> GET(vecs[t], Head(run[p].rest))]])

\* RANGE reads the map of v while the loop body of Set inserts into it: the
\* two are not ordered, and the runtime may stop the program
RangeRace ==
  /\ run.p1.pc = "read" /\ run.p1.rest # <<>>
  /\ run.main = "body" /\ Inserts(vecs["v"], run.entry)
  /\ RunStep(heap, vecs, [run EXCEPT !.crash = TRUE])

\* r1, ok1 := <- c1
JointRecv1 ==
  /\ run.j = "recv1"
  /\ \/ /\ run.p1.pc = "send"
        /\ RunStep(heap, vecs, [run EXCEPT !.j = "recv2", !.r1 = run.p1.cur, !.ok1 = TRUE,
                                           !.p1.pc = "read", !.p1.rest = Tail(@)])
     \/ /\ run.p1.pc = "done"
        /\ RunStep(heap, vecs, [run EXCEPT !.j = "recv2", !.r1 = NoItem, !.ok1 = FALSE])

\* r2, ok2 := <- c2
JointRecv2 ==
  /\ run.j = "recv2"
  /\ \/ /\ run.p2.pc = "send"
        /\ RunStep(heap, vecs, [run EXCEPT !.j = "test", !.r2 = run.p2.cur, !.ok2 = TRUE,
                                           !.p2.pc = "read", !.p2.rest = Tail(@)])
     \/ /\ run.p2.pc = "done"
        /\ RunStep(heap, vecs, [run EXCEPT !.j = "test", !.r2 = NoItem, !.ok2 = FALSE])

\* for ok1 || ok2 { build r ... }  close(channel)
JointTest ==
  /\ run.j = "test"
  /\ IF run.ok1 \/ run.ok2
     THEN RunStep(heap, vecs,
                  [run EXCEPT !.j = "send",
                              !.r = JointEntry(run.r1, run.ok1, run.r2, run.ok2)])
     ELSE RunStep(heap, vecs, [run EXCEPT !.j = "done", !.closed = TRUE])

\* channel <- r, received by the loop of Set; the producer goes back to the
\* test of its loop
JointSend ==
  /\ run.j = "send" /\ run.main = "recv"
  /\ RunStep(heap, vecs, [run EXCEPT !.j = "test", !.main = "body", !.entry = run.r])

\* the loop of Set finds the channel closed
SetEnd ==
  /\ run.main = "recv" /\ run.closed
  /\ RunStep(heap, vecs, [run EXCEPT !.main = "done"])

\* the loop body of Set
SetBody_chan ==
  /\ run.main = "body"
  /\ LET e == run.entry
         a == IF e.Value1 # NilRef
              THEN [panic |-> FALSE, h |-> heap, vec |-> vecs["v"], ref |-> e.Value1]
              ELSE AT_chan(heap, vecs["v"], e.Index)
     IN  RunStep(ScalarSet(a.h, a.ref, ConstOf(a.h, e.Value2)),
                 [vecs EXCEPT !["v"] = a.vec],
                 [run EXCEPT !.main = "recv"])

\* v and x of the channel-based variant, and a call of v.Set(x)
InitRange ==
  \E n \in 1..MaxDim :
    \E cv \in Contents(n, OperandScalars), cx \in Contents(n, OperandScalars) :
      LET rv == Build(<<>>, n, cv[1], cv[2])
          rx == Build(rv.h, n, cx[1], cx[2])
      IN  /\ heap = rx.h
          /\ vecs = [NoVecs EXCEPT !["v"] = rv.vec, !["x"] = rx.vec]
          /\ mats = NoMats
          /\ hist = NoHist
          /\ steps = 0
          /\ run = [NoRun EXCEPT !.main = "call"]

NextRange ==
  \/ SetStart
  \/ JointStart
  \/ RangeStart("p1", "v")
  \/ RangeStart("p2", "x")
  \/ RangeRead("p1", "v")
  \/ RangeRead("p2", "x")
  \/ RangeRace
  \/ JointRecv1
  \/ JointRecv2
  \/ JointTest
  \/ JointSend
  \/ SetEnd
  \/ SetBody_chan

SpecRange == InitRange /\ [][NextRange]_vars

\* every goroutine that can take a step eventually takes one
SpecRangeFair == SpecRange /\ WF_vars(NextRange)


(* ------------------------------------------------------------------------ *)
(* EvaluateLogPdf: clones of the distributions, one set per worker thread   *)
(* ------------------------------------------------------------------------ *)

\* a distribution object: pdf is the wrapped distribution, x the value of
\* the scratch scalar, by the threads that have read or written x
\* NewLogPdfTransform(scalarPdf): the new object is the last one of objs
NewLogPdfTransform(objs, scalarPdf) ==
  Append(objs, [pdf |-> scalarPdf, x |-> 0, by |-> {}])

\* LogPdfTransform.Clone / CloneScalarPdf
LogPdfClone(objs, o) == NewLogPdfTransform(objs, objs[o].pdf)

\* math.Log on the values that occur
LogOf(v) == IF v = 1 THEN 0 ELSE MinusInf

\* d[threadIdx][j] = edist[j].CloneScalarPdf() for every j
RECURSIVE CloneRow(_, _, _)
CloneRow(objs, edist, row) ==
  IF Len(row) = Len(edist) THEN [objs |-> objs, row |-> row]
  ELSE CloneRow(LogPdfClone(objs, edist[Len(row) + 1]), edist,
                Append(row, Len(objs) + 1))

\* the loop over threadIdx
RECURSIVE CloneRows(_, _, _, _)
CloneRows(objs, edist, nt, d) ==
  IF Len(d) = nt THEN [objs |-> objs, d |-> d]
  ELSE LET r == CloneRow(objs, edist, <<>>)
       IN  CloneRows(r.objs, edist, nt, Append(d, r.row))

\* the distributions handed to EvaluateLogPdf: each a LogPdfTransform of a
\* distribution without state (depth 1) or of another LogPdfTransform
\* (depth 2)
RECURSIVE MakeDists(_, _, _)
MakeDists(objs, edist, depths) ==
  IF depths = <<>> THEN [objs |-> objs, edist |-> edist]
  ELSE LET inner == IF Head(depths) = 1 THEN objs
                    ELSE NewLogPdfTransform(objs, StatelessPdf)
           outer == NewLogPdfTransform(inner, IF Head(depths) = 1 THEN StatelessPdf
                                              ELSE Len(inner))
       IN  MakeDists(outer, Append(edist, Len(outer)), Tail(depths))

IdleThread == [pc |-> "idle", i |-> 0, j |-> 0, stack |-> <<>>]

\* a data set of up to MaxLen observations, up to MaxLen distributions and
\* a pool of up to MaxThreads threads, before the call
InitPool ==
  \E m \in 1..MaxLen, n \in 1..MaxLen, nt \in 1..MaxThreads :
    \E depths \in [1..m -> {1, 2}], values \in [1..n -> {-1, 1}] :
      LET r == MakeDists(<<>>, <<>>, depths)
      IN  /\ heap = <<>>
          /\ vecs = NoVecs
          /\ mats = NoMats
          /\ hist = NoHist
          /\ steps = 0
          /\ run = [phase |-> "call", objs |-> r.objs, edist |-> r.edist,
                    values |-> values, nt |-> nt, d |-> <<>>, todo |-> {},
                    th |-> [t \in 1..nt |-> IdleThread]]

PoolStep(run2) ==
  /\ run' = run2
  /\ UNCHANGED <<heap, vecs, mats, hist, steps>>

\* EvaluateLogPdf up to AddRangeJob: the clones are made, the jobs queued
EvaluateLogPdf ==
  /\ run.phase = "call"
  /\ LET r == CloneRows(run.objs, run.edist, run.nt, <<>>) IN
     PoolStep([run EXCEPT !.phase = "jobs", !.objs = r.objs, !.d = r.d,
                          !.todo = DOMAIN run.values])

\* a thread of the pool takes job i: j = 0, d[j].LogPdf(p.At(j, i), x.ConstAt(i))
JobStart(t, i) ==
  /\ run.phase = "jobs"
  /\ run.th[t].pc = "idle"
  /\ i \in run.todo
  /\ PoolStep([run EXCEPT !.todo = @ \ {i},
                          !.th[t] = [pc |-> "down", i |-> i, j |-> 1,
                                     stack |-> <<run.d[t][1]>>]])

\* thread t returns from the call on top of its stack: back in the caller,
\* or on to the next distribution, or the job is done
Return(th, d) ==
  IF Len(th.stack) > 1
  THEN [th EXCEPT !.pc = "up", !.stack = SubSeq(@, 1, Len(@) - 1)]
  ELSE IF th.j < Len(d)
  THEN [th EXCEPT !.pc = "down", !.j = @ + 1, !.stack = <<d[th.j + 1]>>]
  ELSE IdleThread

\* LogPdfTransform.LogPdf, up to the call of the wrapped distribution: a
\* negative argument returns at once; otherwise y := obj.x; y.Log(x), and
\* the wrapped distribution is called with y
LogPdfDown(t) ==
  /\ run.phase = "jobs"
  /\ run.th[t].pc = "down"
  /\ LET th  == run.th[t]
         k   == Len(th.stack)
         o   == th.stack[k]
         arg == IF k = 1 THEN run.values[th.i] ELSE run.objs[th.stack[k - 1]].x
         read == IF k = 1 THEN run.objs
                 ELSE [run.objs EXCEPT ![th.stack[k - 1]].by = @ \cup {t}]
     IN  IF arg < 0
         THEN PoolStep([run EXCEPT !.objs = read, !.th[t] = Return(th, run.d[t])])
         ELSE PoolStep([run EXCEPT
                !.objs  = [read EXCEPT ![o].x = LogOf(arg), ![o].by = @ \cup {t}],
                !.th[t] = IF run.objs[o].pdf = StatelessPdf
                          THEN [th EXCEPT !.pc = "up"]
                          ELSE [th EXCEPT !.stack = Append(@, run.objs[o].pdf)]])

\* LogPdfTransform.LogPdf after the call: r.Sub(r, y) reads obj.x
LogPdfUp(t) ==
  /\ run.phase = "jobs"
  /\ run.th[t].pc = "up"
  /\ LET th == run.th[t]
         o  == th.stack[Len(th.stack)]
     IN  PoolStep([run EXCEPT !.objs[o].by = @ \cup {t},
                              !.th[t]      = Return(th, run.d[t])])

\* pool.Wait(g): every job has run
PoolWait ==
  /\ run.phase = "jobs"
  /\ run.todo = {}
  /\ \A t \in DOMAIN run.th : run.th[t].pc = "idle"
  /\ PoolStep([run EXCEPT !.phase = "done"])

NextPool ==
  \/ EvaluateLogPdf
  \/ \E t \in DOMAIN run.th : \E i \in DOMAIN run.values : JobStart(t, i)
  \/ \E t \in DOMAIN run.th : LogPdfDown(t)
  \/ \E t \in DOMAIN run.th : LogPdfUp(t)
  \/ PoolWait

SpecPool == InitPool /\ [][NextPool]_vars

(* ------------------------------------------------------------------------ *)
(* claims                                                                   *)
(* ------------------------------------------------------------------------ *)

\* the index mirrors the entries: same key set, each key once
IndexConsistent(vec) ==
  /\ Keys(vec) = IndexSet(vec)
  /\ \A k \in Keys(vec) : Count(vec.index.values, k) = 1

\* C1: after any sequence of public sparse-vector operations the keys of the
\* entries map are exactly the indices held by the index, each exactly once
\* (violated by the code: Swap and Permute)
C1_IndexMirrorsEntries ==
  \A t \in {"v", "c"} : Exists(t) => IndexConsistent(vecs[t])

\* the value NEW_VECTOR was given for index i (0 when i is not listed)
GivenValue(indices, values, i) ==
  IF \E k \in 1..Len(indices) : indices[k] = i
  THEN values[CHOOSE k \in 1..Len(indices) : indices[k] = i]
  ELSE 0

\* the index list is made of distinct indices of [0, n)
ValidIndices(indices, n) ==
  /\ \A k \in 1..Len(indices) : 0 <= indices[k] /\ indices[k] < n
  /\ \A a, b \in 1..Len(indices) : a # b => indices[a] # indices[b]

\* C5: NEW_VECTOR(indices, values, n) with distinct indices of [0, n) yields a
\* vector of dimension n that reads the given value at each listed index and
\* 0 at every other index
C5_NewVectorReadBack ==
  (hist.op = "NEW_VECTOR" /\ ValidIndices(hist.pi, hist.i)) =>
    /\ ~hist.panic
    /\ Dim(vecs["v"]) = hist.i
    /\ \A i \in 0..(hist.i - 1) :
         /\ ~ReadPanics(vecs["v"], i)
         /\ ValueAt(heap, vecs["v"], i) = GivenValue(hist.pi, hist.out, i)
         /\ ConstAt(heap, vecs["v"], i).val = GivenValue(hist.pi, hist.out, i)

\* a vector built from two triplets given out of order, one index left out
C5_Witness ==
  /\ hist.op = "NEW_VECTOR"
  /\ ValidIndices(hist.pi, hist.i)
  /\ Len(hist.pi) = 2
  /\ hist.pi[1] > hist.pi[2]
  /\ hist.out[1] # 0 /\ hist.out[2] # 0 /\ hist.out[1] # hist.out[2]
  /\ hist.i > 2
  /\ ~hist.panic

\* C6: every stored key k of a sparse vector satisfies 0 <= k < Dim()
\* (violated by the code: NEW_VECTOR accepts a negative index)
C6_KeysInRange ==
  \A t \in {"v", "c"} :
    Exists(t) => \A k \in Keys(vecs[t]) : 0 <= k /\ k < Dim(vecs[t])

\* the indices a joint iteration surfaced, in the order it surfaced them
Surfaced(out) == [k \in 1..Len(out) |-> out[k].idx]

StrictlyAscending(q) == \A k \in 1..(Len(q) - 1) : q[k] < q[k + 1]

\* C2: the joint iteration of two sparse vectors of equal dimension surfaces
\* every index stored in either vector exactly once, in strictly ascending
\* order, and reports a side without a stored entry as nil / zero
\* (violated by the code: Ok() ends the loop at a stored zero)
C2_JointVisitsUnion ==
  [][(hist'.op = "Joint" /\ ~vecs["x"].dense /\ ~hist'.panic) =>
       LET out == hist'.out IN
       /\ Range(Surfaced(out)) = Keys(vecs["v"]) \cup Keys(vecs["x"])
       /\ StrictlyAscending(Surfaced(out))
       /\ \A k \in 1..Len(out) :
            /\ out[k].idx \notin Keys(vecs["v"]) => out[k].s1 = NilRef
            /\ out[k].idx \notin Keys(vecs["x"]) => out[k].v2 = 0]_vars

\* C3: after v.Set(x), with x sparse or dense of the same dimension,
\* v.ValueAt(i) = x.ValueAt(i) for every i of [0, Dim())
\* (violated by the code: the joint loop of Set ends at a stored zero)
C3_SetCopiesEveryValue ==
  (hist.op = "Set" /\ hist.t = "v" /\ ~hist.panic) =>
    \A i \in 0..(Dim(vecs["v"]) - 1) :
      ValueAt(heap, vecs["v"], i) = ValueAt(heap, vecs["x"], i)

\* the stored entries of vec that are structural zeros
ZeroKeys(h, vec) ==
  {k \in Keys(vec) : vec.values[k] # NilRef /\ nullScalar(h[vec.values[k]])}

\* C4: when one stored entry (at any position, the smallest stored index
\* included) is a structural zero and a full iteration is run, the number of
\* stored entries decreases by exactly one, the key is gone from the entries
\* and from the index, ValueAt there is still 0 and Dim() is unchanged
\* (violated by the code: the entry at the smallest stored index is never
\* examined)
C4_FullIterationPrunesZero ==
  [][(/\ hist'.op = "Iterate" /\ hist'.t = "v"
      /\ IndexConsistent(vecs["v"])
      /\ Cardinality(ZeroKeys(heap, vecs["v"])) = 1) =>
       LET k == CHOOSE z \in ZeroKeys(heap, vecs["v"]) : TRUE IN
       /\ ~hist'.panic
       /\ Occupancy(vecs'["v"]) = Occupancy(vecs["v"]) - 1
       /\ k \notin Keys(vecs'["v"])
       /\ k \notin IndexSet(vecs'["v"])
       /\ ValueAt(heap', vecs'["v"], k) = 0
       /\ Dim(vecs'["v"]) = Dim(vecs["v"])]_vars

\* what an observer of a vector can tell: its dimension, its stored keys, the
\* scalar stored at each key, and the indices its index holds (in ascending
\* order: sorting the index on demand is not a change)
VecView(h, vec) ==
  [n      |-> vec.n,
   index  |-> SortInts(vec.index.values),
   values |-> [k \in Keys(vec) |->
                 IF vec.values[k] = NilRef THEN <<>> ELSE <<h[vec.values[k]]>>]]

\* a matrix: its header and the view of its backing vector
MatView(h, vs, matrix) ==
  [header |-> [matrix EXCEPT !.tmp1 = VecView(h, @), !.tmp2 = VecView(h, @)],
   values |-> VecView(h, vs[matrix.values])]

\* V is a clone of M: it has a backing vector of its own
IsClone(ms) == ms["V"] # NoMat /\ ms["V"].values = "mc"

\* operations that mutate their target in place
InPlaceOps == {"At", "Set", "Reset", "Iterate", "MatAt"}

\* C7: Clone is a deep copy.  Once c is a clone of the vector v, an in-place
\* operation on c (a write or vivification through At, a Set call, a Reset, a
\* pruning iteration) leaves the dimension, the stored keys, every stored
\* scalar and the index of v unchanged, and an in-place operation on v leaves
\* those of c unchanged; once V is a clone of the matrix M, an in-place
\* operation on V leaves the header and the backing vector of M unchanged,
\* and an in-place operation on M or on a row or column vector of M leaves
\* those of V unchanged.
C7_CloneIsDeepCopy ==
  [][/\ (Exists("v") /\ Exists("c") /\ hist'.op \in InPlaceOps) =>
          /\ hist'.t = "c" => VecView(heap', vecs'["v"]) = VecView(heap, vecs["v"])
          /\ hist'.t = "v" => VecView(heap', vecs'["c"]) = VecView(heap, vecs["c"])
     /\ (IsClone(mats) /\ hist'.op \in InPlaceOps) =>
          /\ hist'.t = "V" =>
                MatView(heap', vecs', mats'["M"]) = MatView(heap, vecs, mats["M"])
          /\ hist'.t \in {"M", "c"} =>
                MatView(heap', vecs', mats'["V"]) = MatView(heap, vecs, mats["V"])]_vars

\* the other vector of the pair v, c
Other(t) == IF t = "c" THEN "v" ELSE "c"

\* what reads of a vector return: its dimension and ConstAt at every index
Reads(h, vec) == [n |-> vec.n, at |-> [i \in 0..(vec.n - 1) |-> ConstAt(h, vec, i)]]

\* C7, amended: as above, except that a Set call on one of v, c whose operand
\* is the other one iterates that operand and may prune its structural
\* zeros: such a call still leaves the dimension and what ConstAt
\* reads at every index of the operand unchanged, and removes only keys.
C7_CloneIsDeepCopyExceptOperand ==
  [][/\ (Exists("v") /\ Exists("c") /\ hist'.op \in InPlaceOps /\ hist'.t \in {"v", "c"}) =>
          LET o == Other(hist'.t) IN
          IF hist'.op = "Set" /\ hist'.u = o
          THEN /\ Reads(heap', vecs'[o]) = Reads(heap, vecs[o])
               /\ Keys(vecs'[o]) \subseteq Keys(vecs[o])
               /\ IndexSet(vecs'[o]) \subseteq IndexSet(vecs[o])
          ELSE VecView(heap', vecs'[o]) = VecView(heap, vecs[o])
     /\ (IsClone(mats) /\ hist'.op \in InPlaceOps) =>
          /\ hist'.t = "V" =>
                MatView(heap', vecs', mats'["M"]) = MatView(heap, vecs, mats["M"])
          /\ hist'.t \in {"M", "c"} =>
                MatView(heap', vecs', mats'["V"]) = MatView(heap, vecs, mats["V"])]_vars

\* a write through At into the clone c, at a key the original v stores, has
\* made the two vectors differ
C7_Witness ==
  /\ Exists("v") /\ Exists("c")
  /\ hist.op = "At" /\ hist.t = "c" /\ ~hist.panic
  /\ hist.i \in Keys(vecs["v"])
  /\ ValueAt(heap, vecs["c"], hist.i) # ValueAt(heap, vecs["v"], hist.i)

\* the position of the parent M that position (i, j) of the view V made by
\* the operation "made" stands for
ParentPos(made, i, j) ==
  IF made.op = "T" THEN <<j, i>> ELSE <<made.i + i, made.j + j>>

\* C9: a header returned by Slice or T shares the backing vector of its
\* parent.  After V := M.Slice(rfrom, rto, cfrom, cto) or V := M.T(), the
\* write V.At(i, j).Set(s) succeeds, M.ConstAt reads s at (rfrom+i, cfrom+j)
\* for the slice and at (j, i) for the transpose, and M.ConstAt reads at
\* every other position what it read before the write.
C9_ViewWritesThrough ==
  [][(/\ hist.op \in {"MatSlice", "T"}
      /\ hist'.op = "MatAt" /\ hist'.t = "V") =>
       /\ ~hist'.panic
       /\ \A p \in 0..(mats["M"].rows - 1), q \in 0..(mats["M"].cols - 1) :
            /\ ~MatReadPanics(vecs', mats'["M"], p, q)
            /\ MatConstAt(heap', vecs', mats'["M"], p, q) =
                  IF <<p, q>> = ParentPos(hist, hist'.i, hist'.j)
                  THEN hist'.s
                  ELSE MatConstAt(heap, vecs, mats["M"], p, q)]_vars

\* a nonzero value written through a view that is smaller than its parent or
\* laid out the other way is read back through the parent
C9_Witness ==
  /\ hist.op = "MatAt" /\ hist.t = "V" /\ ~hist.panic /\ hist.s.val # 0
  /\ mats["V"].values = mats["M"].values
  /\ \/ mats["V"].transposed # mats["M"].transposed
     \/ mats["V"].rowOffset + mats["V"].colOffset > 0
  /\ \E p \in 0..(mats["M"].rows - 1), q \in 0..(mats["M"].cols - 1) :
       /\ <<p, q>> # <<hist.i, hist.j>>
       /\ MatConstAt(heap, vecs, mats["M"], p, q) = hist.s

\* C10: a write into the vector returned by Row(i) or Col(j) is read back
\* through the matrix.  After c := M.Row(i) the write c.At(k).Set(s) makes
\* M.ConstAt(i, k) read s, and after c := M.Col(j) it makes M.ConstAt(k, j)
\* read s, whether or not M is transposed and whether or not M stores an
\* entry at that position.
C10_RowColWritesThrough ==
  [][(/\ hist.op \in {"Row", "Col"} /\ ~hist.panic
      /\ hist'.op = "At" /\ hist'.t = "c" /\ ~hist'.panic) =>
       LET p == IF hist.op = "Row" THEN hist.i ELSE hist'.i
           q == IF hist.op = "Row" THEN hist'.i ELSE hist.i
       IN  MatConstAt(heap', vecs', mats'["M"], p, q) = hist'.s]_vars

\* C8: At succeeds at the last index and fails outside the range.  On a
\* vector of dimension n >= 1, At(n-1) succeeds, and At(n) and At(-1) fail
\* and leave the stored entries and the index as they were.
C8_AtChecksBounds ==
  [][(hist'.op = "At" /\ hist'.t = "v" /\ Dim(vecs["v"]) >= 1) =>
       /\ hist'.i = Dim(vecs["v"]) - 1 => ~hist'.panic
       /\ hist'.i \in {-1, Dim(vecs["v"])} =>
            /\ hist'.panic
            /\ vecs'["v"] = vecs["v"]
            /\ heap' = heap]_vars

\* C11: Tip transposes in place.  After M.Tip() the matrix has the former
\* number of columns as rows and the former number of rows as columns, and
\* M.ConstAt(i, j) reads, at every position (i, j) of the new shape, what
\* M.ConstAt(j, i) read before the call (what a clone of M.T() holds there).
C11_TipEqualsTransposeClone ==
  [][(hist'.op = "Tip") =>
       /\ ~hist'.panic
       /\ mats'["M"].rows = mats["M"].cols
       /\ mats'["M"].cols = mats["M"].rows
       /\ \A i \in 0..(mats["M"].cols - 1), j \in 0..(mats["M"].rows - 1) :
            /\ ~MatReadPanics(vecs', mats'["M"], i, j)
            /\ MatConstAt(heap', vecs', mats'["M"], i, j) =
                 MatConstAt(heap, vecs, mats["M"], j, i)]_vars

\* what ConstAt reads at every position of a header (<<>> where it panics)
MatReads(h, vs, matrix) ==
  [p \in (0..(matrix.rows - 1)) \X (0..(matrix.cols - 1)) |->
     IF MatReadPanics(vs, matrix, p[1], p[2]) THEN <<>>
     ELSE <<MatConstAt(h, vs, matrix, p[1], p[2])>>]

\* C12: the transpose of a view reads the view with rows and columns
\* exchanged.  For every view V made from the matrix M by Slice and T, V.T()
\* has V's number of columns as rows and V's number of rows as columns,
\* V.T().ConstAt(j, i) reads without failure what V.ConstAt(i, j) reads, at
\* every position (i, j) of V, and V.T().T() reads as V does everywhere.
C12_TransposeOfView ==
  \A X \in MatNames :
    MatExists(X) =>
      LET V  == mats[X]
          Vt == T(V)
      IN  /\ Vt.rows = V.cols /\ Vt.cols = V.rows
          /\ \A i \in 0..(V.rows - 1), j \in 0..(V.cols - 1) :
               /\ ~MatReadPanics(vecs, V, i, j)
               /\ ~MatReadPanics(vecs, Vt, j, i)
               /\ MatConstAt(heap, vecs, Vt, j, i) = MatConstAt(heap, vecs, V, i, j)
          /\ MatReads(heap, vecs, T(Vt)) = MatReads(heap, vecs, V)

\* a view made by Slice and T that is offset into its parent, not square,
\* and holds two different values
C12_Witness ==
  /\ hist.op \in {"ViewT", "ViewSlice"} /\ steps >= 2
  /\ mats["V"].rows # mats["V"].cols
  /\ mats["V"].rowOffset + mats["V"].colOffset > 0
  /\ \E i \in 0..(mats["V"].rows - 1), j \in 0..(mats["V"].cols - 1) :
       MatConstAt(heap, vecs, mats["V"], i, j) # MatConstAt(heap, vecs, mats["V"], 0, 0)

\* C13: Set is idempotent.  When v.Set(x) is performed twice in succession,
\* the second call leaves the value read at every index of v as the first
\* call left it.
C13_SetTwiceIsSetOnce ==
  [][(/\ hist.op = "Set" /\ hist.t = "v" /\ hist.u = "x" /\ ~hist.panic
      /\ hist'.op = "Set" /\ hist'.t = "v" /\ hist'.u = "x") =>
       /\ ~hist'.panic
       /\ Dim(vecs'["v"]) = Dim(vecs["v"])
       /\ \A i \in 0..(Dim(vecs["v"]) - 1) :
            ValueAt(heap', vecs'["v"], i) = ValueAt(heap, vecs["v"], i)]_vars

\* C14: a vector written by Export is read back by Import.  After
\* v.Export(file) and c.Import(file) into a freshly constructed vector c, the
\* import has succeeded, c has the dimension of v and reads at every index
\* the value v reads there.
C14_ExportImportRoundTrip ==
  [][(/\ hist.op = "Export" /\ hist.t = "v" /\ ~hist.panic
      /\ hist'.op = "Import") =>
       /\ ~hist'.panic /\ ~hist'.err
       /\ Dim(vecs'["c"]) = Dim(vecs["v"])
       /\ \A i \in 0..(Dim(vecs["v"]) - 1) :
            ValueAt(heap', vecs'["c"], i) = ValueAt(heap, vecs["v"], i)]_vars

\* a vector with a negative value and without an entry at its last index
\* went through the file
C14_Witness ==
  /\ hist.op = "Import" /\ ~hist.panic /\ ~hist.err
  /\ Exists("v") /\ Exists("c")
  /\ (Dim(vecs["v"]) - 1) \notin Keys(vecs["v"])
  /\ \E i \in Keys(vecs["c"]) : ValueAt(heap, vecs["c"], i) < 0


\* C15: after a failed Import the target holds no entries, neither those it
\* held before the call nor those parsed before the failure
\* (violated by the code: the iterator variant and the matrix Import return
\* with the receiver as it was, the channel variant keeps the parsed tokens)
C15_FailedImportLeavesEmpty ==
  [][(hist'.op \in {"Import", "ImportChan", "MatImport"} /\ hist'.err) =>
       /\ hist'.op \in {"Import", "ImportChan"} => Keys(vecs'["v"]) = {}
       /\ hist'.op = "MatImport" => Keys(vecs'[mats'["M"].values]) = {}]_vars


\* the table file does not parse, or names a negative or a repeated index
MalformedTable(file) ==
  LET p == ImportLines(NULL_VECTOR(0), file, <<>>, <<>>, 0) IN
  p.err \/ ~ValidIndices(p.indices, p.n)

\* the matrix file does not parse, or names a row or column outside the shape
MalformedMatrixTable(file) ==
  IF file = <<>> THEN FALSE
  ELSE LET header == Fields(Head(file))
           p      == MatImportLines(Tail(file), <<>>, <<>>, <<>>)
       IN  \/ Len(header) # 2
           \/ ParseInt(header[1]).err
           \/ ParseInt(header[2]).err
           \/ p.err
           \/ \E k \in 1..Len(p.values) :
                \/ p.rowIndices[k] < 0 \/ p.rowIndices[k] >= ParseInt(header[1]).val
                \/ p.colIndices[k] < 0 \/ p.colIndices[k] >= ParseInt(header[2]).val

\* the Index and Value lists differ in length, or Index is not made of
\* distinct indices of [0, Length)
MalformedJSON(Index, Value, Length) ==
  Len(Index) # Len(Value) \/ ~ValidIndices(Index, Length)

\* the input of the call recorded in rec is malformed
Malformed(rec) ==
  CASE rec.op \in {"Import", "ImportChan"} -> MalformedTable(rec.out)
    [] rec.op = "MatImport"                -> MalformedMatrixTable(rec.out)
    [] rec.op = "UnmarshalJSON"            -> MalformedJSON(rec.pi, rec.out, rec.i)
    [] rec.op = "MatUnmarshalJSON"         -> MalformedJSON(rec.pi, rec.out, rec.i * rec.j)
    [] OTHER                               -> FALSE

\* C16: a malformed table or JSON input is reported as a returned error: the
\* call does not panic and does not accept the input
\* (violated by the code: NEW_VECTOR and NEW_MATRIX panic, negative indices and
\* the channel variant's repeated indices are accepted)
C16_MalformedInputIsAnError ==
  [][Malformed(hist') => (hist'.err /\ ~hist'.panic)]_vars


\* pi is a bijection of [0, n)
IsPermutation(pi, n) ==
  /\ Len(pi) = n
  /\ \A k \in 1..Len(pi) : 0 <= pi[k] /\ pi[k] < n
  /\ \A a, b \in 1..Len(pi) : a # b => pi[a] # pi[b]

\* C17: Permute(pi) returns an error whenever pi has not the length Dim(),
\* holds an entry outside [0, Dim()), or is not a bijection
\* (violated by the code: a repeated entry is not detected)
C17_PermuteRejectsInvalid ==
  [][(hist'.op = "Permute" /\ ~IsPermutation(hist'.pi, Dim(vecs["v"]))) => hist'.err]_vars


\* the call recorded in rec is a row or column swap or permutation
MatPermutationOp(rec) == rec.op \in {"SwapRows", "SwapColumns", "MatPermute"}

\* the matrix is not square, or the permutation has an entry outside [0, n)
InvalidMatPermutation(rec, matrix) ==
  \/ matrix.rows # matrix.cols
  \/ /\ rec.op = "MatPermute"
     /\ \E k \in 1..Len(rec.pi) : rec.pi[k] < 0 \/ rec.pi[k] >= matrix.rows

\* C18: on a matrix that is not square, or for a permutation with an entry
\* outside [0, n), SwapRows, SwapColumns, PermuteRows, PermuteColumns and
\* SymmetricPermutation return an error, do not panic and change no element
\* (violated by the code: the entry n is let through, and the rows before the
\* rejected entry are already swapped)
C18_InvalidPermutationIsRejected ==
  [][(MatPermutationOp(hist') /\ InvalidMatPermutation(hist', mats["M"])) =>
       /\ hist'.err
       /\ ~hist'.panic
       /\ MatReads(heap', vecs', mats'["M"]) = MatReads(heap, vecs, mats["M"])]_vars


\* number of positions of [0, Dim) where the vector reads the value a
CountValue(h, vec, a) ==
  Cardinality({i \in 0..(Dim(vec) - 1) : ValueAt(h, vec, i) = a})

\* C19: after Sort(false) the values read over the positions 0..Dim()-1 are
\* non-decreasing, after Sort(true) non-increasing, and every value is read at
\* as many positions as before the call
C19_SortOrdersValues ==
  [][(hist'.op = "Sort") =>
       LET v0 == vecs["v"]
           v1 == vecs'["v"]
       IN  /\ ~hist'.panic
           /\ Dim(v1) = Dim(v0)
           /\ \A i \in 0..(Dim(v1) - 1) : ~ReadPanics(v1, i)
           /\ \A i, j \in 0..(Dim(v1) - 1) :
                i < j => IF hist'.i = 1
                         THEN ValueAt(heap', v1, i) >= ValueAt(heap', v1, j)
                         ELSE ValueAt(heap', v1, i) <= ValueAt(heap', v1, j)
           /\ \A a \in Values : CountValue(heap', v1, a) = CountValue(heap, v0, a)]_vars


\* a vector with a negative value, a positive value and an absent entry was
\* sorted: the negative value is read first, the positive value last
C19_Witness ==
  /\ hist.op = "Sort" /\ hist.i = 0 /\ ~hist.panic
  /\ Dim(vecs["v"]) = 3
  /\ ValueAt(heap, vecs["v"], 0) = -1
  /\ 1 \notin Keys(vecs["v"])
  /\ ValueAt(heap, vecs["v"], 2) = 1


\* C20: whenever Ok() is true on a joint iterator (two-way or three-way,
\* JOINT_ITERATOR or JOINT_ITERATOR_), one of the current side values is
\* nonzero: a position where every side is zero is not handed to the loop body
\* (violated by the code: Ok() of JOINT_ITERATOR_ and JOINT3_ITERATOR_ tests
\* the scalars for nil only)
C20_OkMeansNonzero ==
  [][(hist'.op \in {"Joint", "Joint_", "Joint3_"}) =>
       \A k \in 1..Len(hist'.out) :
         LET e == hist'.out[k] IN
         \/ e.v1 # 0
         \/ e.v2 # 0
         \/ (hist'.op = "Joint3_" /\ e.v3 # 0)]_vars


\* every stored value of the vector is nonzero
AllNonzero(h, vec) ==
  \A k \in Keys(vec) : vec.values[k] # NilRef /\ h[vec.values[k]].val # 0

\* C21: for three sparse vectors of equal dimension whose stored values are
\* all nonzero, the three-way joint iteration (JOINT3_ITERATOR and
\* JOINT3_ITERATOR_) surfaces exactly the indices stored in one of them, each
\* once and in strictly ascending order, with the stored value of every side
\* that has an entry there and nil / zero for every side that has none
C21_Joint3VisitsUnion ==
  [][(/\ hist'.op \in {"Joint3", "Joint3_"}
      /\ \A t \in {"v", "x", "c"} : AllNonzero(heap, vecs[t])) =>
       LET out == hist'.out IN
       /\ ~hist'.panic
       /\ Range(Surfaced(out)) = Keys(vecs["v"]) \cup Keys(vecs["x"]) \cup Keys(vecs["c"])
       /\ StrictlyAscending(Surfaced(out))
       /\ \A k \in 1..Len(out) :
            /\ out[k].s1 = GET(vecs["v"], out[k].idx)
            /\ out[k].s2 = GET(vecs["x"], out[k].idx)
            /\ out[k].s3 = GET(vecs["c"], out[k].idx)
            /\ out[k].v1 = ValueAt(heap, vecs["v"], out[k].idx)
            /\ out[k].v2 = ValueAt(heap, vecs["x"], out[k].idx)
            /\ out[k].v3 = ValueAt(heap, vecs["c"], out[k].idx)]_vars

\* a three-way joint iteration surfaced three indices: one stored in v only,
\* one in x only, one in c only
C21_Witness ==
  /\ hist.op \in {"Joint3", "Joint3_"}
  /\ Len(hist.out) = 3
  /\ \E p, q, r \in 1..3 :
       /\ hist.out[p].s1 # NilRef /\ hist.out[p].s2 = NilRef /\ hist.out[p].s3 = NilRef
       /\ hist.out[q].s1 = NilRef /\ hist.out[q].s2 # NilRef /\ hist.out[q].s3 = NilRef
       /\ hist.out[r].s1 = NilRef /\ hist.out[r].s2 = NilRef /\ hist.out[r].s3 # NilRef


\* the position (r, k) with the lines a and b exchanged: rows when rows is
\* TRUE, columns otherwise
Exchanged(rows, a, b, r, k) ==
  LET sw(x) == IF x = a THEN b ELSE IF x = b THEN a ELSE x
  IN  IF rows THEN <<sw(r), k>> ELSE <<r, sw(k)>>

\* C22: on a square sparse matrix of any occupancy SwapRows(i, j) exchanges
\* the rows i and j and SwapColumns(i, j) the columns i and j: every position
\* reads afterwards what the exchanged position read before, every other
\* position what it read before
\* (violated by the code: the vector Swap stores nil under a position that
\* held no entry)
C22_SwapExchangesLines ==
  [][(hist'.op \in {"SwapRows", "SwapColumns"} /\ mats["M"].rows = mats["M"].cols) =>
       /\ ~hist'.err /\ ~hist'.panic
       /\ \A r \in 0..(mats["M"].rows - 1), k \in 0..(mats["M"].cols - 1) :
            LET p == Exchanged(hist'.op = "SwapRows", hist'.i, hist'.j, r, k) IN
            /\ ~MatReadPanics(vecs', mats'["M"], r, k)
            /\ MatConstAt(heap', vecs', mats'["M"], r, k) =
                 MatConstAt(heap, vecs, mats["M"], p[1], p[2])]_vars


\* C23: for every sparse matrix view (any shape, offsets and transposed flag)
\* ij is the inverse of index: ij(index(i, j)) = (i, j) at every position
\* (i, j) of the view
\* (violated by the code: ij divides by rowMax where index multiplies by colMax)
C23_IjInvertsIndex ==
  \A X \in MatNames :
    MatExists(X) =>
      \A i \in 0..(mats[X].rows - 1), j \in 0..(mats[X].cols - 1) :
        ij(mats[X], index(mats[X], i, j)) = <<i, j>>


\* C24: after a.Set(b) on a sparse matrix a, with a matrix b of the same
\* dimensions, a.ConstAt(i, j) equals b.ConstAt(i, j) at every position, also
\* when a held no entry before the call
\* (violated by the code: Set visits the stored entries of a only, and reads
\* b at the position ij gives)
C24_MatSetCopiesEveryElement ==
  [][(hist'.op = "MatSet") =>
       /\ ~hist'.panic
       /\ \A i \in 0..(mats["M"].rows - 1), j \in 0..(mats["M"].cols - 1) :
            /\ ~MatReadPanics(vecs', mats'["M"], i, j)
            /\ MatConstAt(heap', vecs', mats'["M"], i, j).val =
                 MatConstAt(heap', vecs', mats'["V"], i, j).val]_vars


\* C25: Reset() on a view made by Slice changes only elements inside the
\* view: after V := M.Slice(rfrom, rto, cfrom, cto) and V.Reset(), every
\* position of M outside the rows rfrom..rto-1 or the columns cfrom..cto-1
\* reads what it read before the Reset
\* (violated by the code: Reset runs over the whole backing vector)
C25_ResetStaysInsideView ==
  [][(/\ hist.op = "MatSlice"
      /\ hist'.op = "MatReset" /\ hist'.t = "V") =>
       \A i \in 0..(mats["M"].rows - 1), j \in 0..(mats["M"].cols - 1) :
         (i < hist.pi[1] \/ i >= hist.pi[2] \/ j < hist.pi[3] \/ j >= hist.pi[4]) =>
           MatReads(heap', vecs', mats'["M"])[<<i, j>>] =
             MatReads(heap, vecs, mats["M"])[<<i, j>>]]_vars


\* C26: for every sparse matrix view of n rows and m columns (sliced or not,
\* transposed or not) the vector v returned by AsVector() has Dim() = n*m and
\* v.ValueAt(i*m + j) is the view's ValueAt(i, j) at every position
\* (violated by the code: the backing vector is returned as it is for
\* transposed views and for slices that reach the last row and column, and
\* the copy addresses the view through ij)
C26_AsVectorReadsRowMajor ==
  [][(hist'.op = "AsVector") =>
       LET V == mats[hist'.t]
           v == vecs'["c"]
       IN  /\ ~hist'.panic
           /\ Dim(v) = V.rows * V.cols
           /\ \A i \in 0..(V.rows - 1), j \in 0..(V.cols - 1) :
                /\ ~ReadPanics(v, i * V.cols + j)
                /\ ValueAt(heap', v, i * V.cols + j) =
                     MatConstAt(heap', vecs', V, i, j).val]_vars


\* C27: importing a well-formed single-line sparse table into a sparse
\* vector succeeds and sets Dim() and the values from the file, whatever the
\* target held before
\* (violated by the code: the iterator variant rejects every table when the
\* target holds entries)
C27_ImportIgnoresPriorContents ==
  [][(/\ hist'.op \in {"Import", "ImportChan"}
      /\ Len(hist'.out) = 1
      /\ ~MalformedTable(hist'.out)) =>
       LET p == ImportLines(NULL_VECTOR(0), hist'.out, <<>>, <<>>, 0) IN
       /\ ~hist'.err /\ ~hist'.panic
       /\ Dim(vecs'["v"]) = p.n
       /\ \A i \in 0..(p.n - 1) :
            /\ ~ReadPanics(vecs'["v"], i)
            /\ ValueAt(heap', vecs'["v"], i) = GivenValue(p.indices, p.values, i)]_vars


\* the loop body found no entry of the iterated vector at position k of the
\* traversal and made one
Vivified(rec, k) == rec.out[k].s1 = NilRef

RangeFinished ==
  /\ run.main = "done" /\ run.j = "done"
  /\ run.p1.pc = "done" /\ run.p2.pc = "done"
  /\ run.closed

\* C29: in the channel-based variant every goroutine started by
\* JOINT_RANGE(b) eventually terminates and the channel is eventually
\* closed, so the loop over JOINT_RANGE and therefore Set terminate
\* (violated by the code: the joint producer never receives again)
C29_RangeTerminates == <>RangeFinished


\* the objects with a scratch scalar that distribution o reaches: o itself
\* and what it wraps
RECURSIVE StateOf(_, _)
StateOf(objs, o) ==
  IF o = StatelessPdf THEN {} ELSE {o} \cup StateOf(objs, objs[o].pdf)

\* C30: during EvaluateLogPdf no mutable distribution state is shared
\* between two worker threads: a clone made by CloneScalarPdf shares no
\* state, the wrapped distribution included, with the original or with the
\* clone of another thread, and no scratch scalar is touched by two threads
\* (violated by the code: Clone hands the wrapped distribution to the clone)
C30_NoSharedState ==
  run.phase \in {"jobs", "done"} =>
    /\ \A t \in DOMAIN run.d : \A j \in DOMAIN run.edist :
         /\ \A k \in DOMAIN run.edist :
              StateOf(run.objs, run.d[t][j]) \cap StateOf(run.objs, run.edist[k]) = {}
         /\ \A u \in DOMAIN run.d : \A k \in DOMAIN run.edist :
              u # t => StateOf(run.objs, run.d[t][j]) \cap StateOf(run.objs, run.d[u][k]) = {}
    /\ \A o \in DOMAIN run.objs : Cardinality(run.objs[o].by) <= 1

=============================================================================
